---- MODULE Spec2Model ----
(***************************************************************************)
(* A model of op-reth's import commands: the typed record mappers over the *)
(* RLP item tree (blocks.rs, receipts.rs), the record normalisers, the     *)
(* state-root computation (state.rs) and the genesis writer (genesis.rs).  *)
(*                                                                         *)
(* An RLP buffer is modelled by the item tree it frames: a scalar holding  *)
(* bytes, a list holding items, or the null item of an empty buffer.       *)
(* Bytes are integers 0..255, byte strings are sequences of them.          *)
(***************************************************************************)
EXTENDS Integers, Sequences, FiniteSets, TLC

\* ------------------------------------------------------------------------
\* Widths of the fixed-width types the records use
\* ------------------------------------------------------------------------
HashLen == 32
AddrLen == 20
BloomLen == 256
U64Len == 8
U128Len == 16
U256Len == 32

\* ------------------------------------------------------------------------
\* Bounds of the model
\* ------------------------------------------------------------------------
MaxDump == 2
MaxNumber == 1
MaxV == 3
MaxReceipt == 3
MaxBatch == 2
MaxAddr == 3

\* ------------------------------------------------------------------------
\* Results, options, byte strings
\* ------------------------------------------------------------------------
Ok(v) == [k |-> "ok", val |-> v, e |-> ""]
Err(e) == [k |-> "err", val |-> <<>>, e |-> e]
Panic(e) == [k |-> "panic", val |-> <<>>, e |-> e]

None == <<>>
Some(x) == <<x>>

Rep(n, x) == [i \in 1..n |-> x]

RECURSIVE from_big_endian(_)
from_big_endian(b) ==
    IF b = <<>> THEN 0
    ELSE 256 * from_big_endian(SubSeq(b, 1, Len(b) - 1)) + b[Len(b)]

RECURSIVE from_little_endian_value(_)
from_little_endian_value(b) ==
    IF b = <<>> THEN 0 ELSE b[1] + 256 * from_little_endian_value(Tail(b))

\* The minimal big-endian bytes of n (no leading zero; 0 is the empty string)
RECURSIVE to_be_bytes_trimmed(_)
to_be_bytes_trimmed(n) ==
    IF n = 0 THEN <<>> ELSE Append(to_be_bytes_trimmed(n \div 256), n % 256)

MinOf(S) == CHOOSE x \in S : \A y \in S : x <= y

\* The first failure of a sequence of results, in order (the `?` operator)
FirstFailure(rs) ==
    LET bad == {i \in DOMAIN rs : rs[i].k # "ok"}
    IN  IF bad = {} THEN Ok(<<>>) ELSE rs[MinOf(bad)]

\* ------------------------------------------------------------------------
\* The RLP item tree and the rlp crate's view of it
\* ------------------------------------------------------------------------
Scalar(b) == [t |-> "s", b |-> b, items |-> <<>>]
List(xs) == [t |-> "l", b |-> <<>>, items |-> xs]
Null == [t |-> "n", b |-> <<>>, items |-> <<>>]

\* The encoding of a length as a header: short form below 56, long form above
EncodeHeader(len, offset) ==
    IF len < 56 THEN <<offset + len>>
    ELSE <<offset + 55 + Len(to_be_bytes_trimmed(len))>> \o to_be_bytes_trimmed(len)

RECURSIVE Encode(_)
RECURSIVE EncodeAll(_)
Encode(r) ==
    IF r.t = "n" THEN <<>>
    ELSE IF r.t = "s"
    THEN IF Len(r.b) = 1 /\ r.b[1] < 128 THEN r.b
         ELSE EncodeHeader(Len(r.b), 128) \o r.b
    ELSE EncodeHeader(Len(EncodeAll(r.items)), 192) \o EncodeAll(r.items)
EncodeAll(xs) ==
    IF xs = <<>> THEN <<>> ELSE Encode(xs[1]) \o EncodeAll(Tail(xs))

\* Rlp::data: the payload bytes of the item, whatever its kind
data(r) ==
    IF r.t = "n" THEN Err("RlpIsTooShort")
    ELSE IF r.t = "s" THEN Ok(r.b)
    ELSE Ok(EncodeAll(r.items))

is_null(r) == r.t = "n"
is_list(r) == r.t = "l"
is_data(r) == r.t = "s"
\* Rlp::is_empty: the empty string 0x80 or the empty list 0xc0
is_empty(r) == (r.t = "s" /\ r.b = <<>>) \/ (r.t = "l" /\ r.items = <<>>)

\* Rlp::at, index from 0
at(r, i) ==
    IF ~is_list(r) THEN Err("RlpExpectedToBeList")
    ELSE IF i + 1 > Len(r.items) THEN Err("RlpIsTooShort")
    ELSE Ok(r.items[i + 1])

\* Rlp::iter: next() is at(index).ok(), so an item that is no list yields nothing
iter(r) == IF is_list(r) THEN r.items ELSE <<>>

\* BasicDecoder::decode_value
decode_value(r) ==
    IF is_null(r) THEN Err("RlpIsTooShort")
    ELSE IF is_list(r) THEN Err("RlpExpectedToBeData")
    ELSE Ok(r.b)

\* Decodable for the fixed-width hashes H256, H160, Bloom
decode_fixed(r, n) ==
    LET d == decode_value(r)
    IN  IF d.k # "ok" THEN d
        ELSE IF Len(d.val) < n THEN Err("RlpIsTooShort")
        ELSE IF Len(d.val) > n THEN Err("RlpIsTooBig")
        ELSE Ok(d.val)

\* Mutant: the integer narrowed to its two low bytes
decode_uint_low_bytes(r, n) ==
    LET d == decode_value(r)
    IN  IF d.k # "ok" THEN d
        ELSE IF Len(d.val) = 0 THEN Ok(0)
        ELSE IF Len(d.val) > n THEN Err("RlpIsTooBig")
        ELSE IF d.val[1] = 0 THEN Err("RlpInvalidIndirection")
        ELSE Ok(from_big_endian(d.val) % 65536)

\* Decodable for u64 and u128: big-endian, no leading zero, at most n bytes
decode_uint(r, n) ==
    LET d == decode_value(r)
    IN  IF d.k # "ok" THEN d
        ELSE IF Len(d.val) = 0 THEN Ok(0)
        ELSE IF Len(d.val) > n THEN Err("RlpIsTooBig")
        ELSE IF d.val[1] = 0 THEN Err("RlpInvalidIndirection")
        ELSE Ok(from_big_endian(d.val))

\* Decodable for u8
decode_u8(r) ==
    LET d == decode_value(r)
    IN  IF d.k # "ok" THEN d
        ELSE IF Len(d.val) = 0 THEN Ok(0)
        ELSE IF Len(d.val) > 1 THEN Err("RlpIsTooBig")
        ELSE IF d.val[1] = 0 THEN Err("RlpInvalidIndirection")
        ELSE Ok(d.val[1])

\* The leading zero bytes of b removed
RECURSIVE trim_leading_zeros(_)
trim_leading_zeros(b) ==
    IF b # <<>> /\ b[1] = 0 THEN trim_leading_zeros(Tail(b)) ELSE b

\* Decodable for U256 (ruint): try_from_be_slice of the item's payload
decode_U256(r) ==
    LET d == data(r)
    IN  IF d.k # "ok" THEN d
        ELSE IF Len(trim_leading_zeros(d.val)) > U256Len THEN Err("Custom")
        ELSE Ok(from_big_endian(d.val))

\* Decodable for Vec<u8>
decode_bytes(r) == decode_value(r)

\* Rlp::val_at::<T>(i) is at(i)?.as_val(): one definition for each T in use
decode_H256(r) == decode_fixed(r, HashLen)
decode_H160(r) == decode_fixed(r, AddrLen)
decode_Bloom(r) == decode_fixed(r, BloomLen)
decode_u64(r) == decode_uint(r, U64Len)
decode_u128(r) == decode_uint(r, U128Len)

val_at_H256(r, i) == LET a == at(r, i) IN IF a.k # "ok" THEN a ELSE decode_H256(a.val)
val_at_H160(r, i) == LET a == at(r, i) IN IF a.k # "ok" THEN a ELSE decode_H160(a.val)
val_at_Bloom(r, i) == LET a == at(r, i) IN IF a.k # "ok" THEN a ELSE decode_Bloom(a.val)
val_at_U256(r, i) == LET a == at(r, i) IN IF a.k # "ok" THEN a ELSE decode_U256(a.val)
val_at_u64(r, i) == LET a == at(r, i) IN IF a.k # "ok" THEN a ELSE decode_u64(a.val)
val_at_u128(r, i) == LET a == at(r, i) IN IF a.k # "ok" THEN a ELSE decode_u128(a.val)
val_at_u8(r, i) == LET a == at(r, i) IN IF a.k # "ok" THEN a ELSE decode_u8(a.val)
val_at_bytes(r, i) == LET a == at(r, i) IN IF a.k # "ok" THEN a ELSE decode_bytes(a.val)

\* The collect() of an iterator of results: the values, or the first failure
collect(rs) ==
    IF FirstFailure(rs).k # "ok" THEN FirstFailure(rs)
    ELSE Ok([i \in DOMAIN rs |-> rs[i].val])

\* Rlp::list_at::<u8>(i) is at(i)?.as_list(): every item of iter() decoded
list_at_u8(r, i) ==
    LET a == at(r, i)
    IN  IF a.k # "ok" THEN a
        ELSE collect([j \in DOMAIN iter(a.val) |-> decode_u8(iter(a.val)[j])])

Keccak(x) == [keccak |-> x]

\* ------------------------------------------------------------------------
\* blocks.rs: the record mappers
\* ------------------------------------------------------------------------

\* impl Decodable for ErigonHeader: fifteen positional fields, each with `?`
ErigonHeader_fields(rlp) ==
    << val_at_H256(rlp, 0), val_at_H256(rlp, 1), val_at_H160(rlp, 2),
       val_at_H256(rlp, 3), val_at_H256(rlp, 4), val_at_H256(rlp, 5),
       val_at_Bloom(rlp, 6), val_at_U256(rlp, 7), val_at_u64(rlp, 8),
       val_at_u64(rlp, 9), val_at_u64(rlp, 10), val_at_u64(rlp, 11),
       val_at_bytes(rlp, 12), val_at_H256(rlp, 13), list_at_u8(rlp, 14) >>

\* The Ok(Self { .. }) of the decoded fields f, or their first failure
ErigonHeader_new(f) ==
    IF FirstFailure(f).k # "ok" THEN FirstFailure(f)
    ELSE Ok([ parent_hash |-> f[1].val, uncle_hash |-> f[2].val,
              coinbase |-> f[3].val, state_root |-> f[4].val,
              tx_hash |-> f[5].val, receipts_root |-> f[6].val,
              logs_bloom |-> f[7].val, difficulty |-> f[8].val,
              number |-> f[9].val, gas_limit |-> f[10].val,
              gas_used |-> f[11].val, timestamp |-> f[12].val,
              extra_data |-> f[13].val, mix_hash |-> f[14].val,
              block_nonce |-> f[15].val ])

ErigonHeader_decode(rlp) == ErigonHeader_new(ErigonHeader_fields(rlp))

\* Mutant: the recipient narrowed to an address before the emptiness test
LegacyTx_to_narrow_first(rlp) ==
    LET to == at(rlp, 3)
        addr == decode_H160(to.val)
    IN  IF to.k # "ok" THEN to
        ELSE IF addr.k # "ok" THEN addr
        ELSE IF is_empty(to.val) THEN Ok(None)
        ELSE Ok(Some(addr.val))

\* LegacyTx::decode, the recipient: the emptiness test, then the address
LegacyTx_to(rlp) ==
    LET to == at(rlp, 3)
        addr == decode_H160(to.val)
    IN  IF to.k # "ok" THEN to
        ELSE IF is_empty(to.val) THEN Ok(None)
        ELSE IF addr.k # "ok" THEN addr
        ELSE Ok(Some(addr.val))

\* impl Decodable for LegacyTx: nine positional fields, each with `?`
LegacyTx_fields(rlp) ==
    << val_at_u64(rlp, 0), val_at_u128(rlp, 1), val_at_u64(rlp, 2),
       LegacyTx_to(rlp), val_at_u128(rlp, 4), val_at_bytes(rlp, 5),
       val_at_U256(rlp, 6), val_at_U256(rlp, 7), val_at_U256(rlp, 8) >>

\* The Ok(Self { .. }) of the decoded fields f, or their first failure
LegacyTx_new(f) ==
    IF FirstFailure(f).k # "ok" THEN FirstFailure(f)
    ELSE Ok([ nonce |-> f[1].val, gas_price |-> f[2].val, gas |-> f[3].val,
              to |-> f[4].val, value |-> f[5].val, data |-> f[6].val,
              v |-> f[7].val, r |-> f[8].val, s |-> f[9].val ])

LegacyTx_decode(rlp) == LegacyTx_new(LegacyTx_fields(rlp))

\* ErigonBlock::decode, the transactions: every item of position 1 decoded
\* and unwrapped, so a transaction that fails to decode panics
unwrap_all(rs) ==
    IF FirstFailure(rs).k # "ok" THEN Panic(FirstFailure(rs).e)
    ELSE Ok([i \in DOMAIN rs |-> rs[i].val])

\* Mutant: the iterator over the transactions advanced once before the map
ErigonBlock_txs_skip_first(rlp) ==
    LET l == at(rlp, 1)
    IN  IF l.k # "ok" THEN l
        ELSE unwrap_all([i \in 1..(Len(iter(l.val)) - 1) |-> LegacyTx_decode(iter(l.val)[i + 1])])

ErigonBlock_txs(rlp) ==
    LET l == at(rlp, 1)
    IN  IF l.k # "ok" THEN l
        ELSE unwrap_all([i \in DOMAIN iter(l.val) |-> LegacyTx_decode(iter(l.val)[i])])

\* Rlp::val_at::<ErigonHeader>(i) and Rlp::list_at::<ErigonHeader>(i)
val_at_ErigonHeader(r, i) ==
    LET a == at(r, i) IN IF a.k # "ok" THEN a ELSE ErigonHeader_decode(a.val)
list_at_ErigonHeader(r, i) ==
    LET a == at(r, i)
    IN  IF a.k # "ok" THEN a
        ELSE collect([j \in DOMAIN iter(a.val) |-> ErigonHeader_decode(iter(a.val)[j])])

\* impl Decodable for ErigonBlock: header, transactions, uncles, in this order
\* The Ok(Self { .. }) of the three decoded parts, or their first failure
ErigonBlock_new(header, txs, uncles) ==
    IF header.k # "ok" THEN header
    ELSE IF txs.k # "ok" THEN txs
    ELSE IF uncles.k # "ok" THEN uncles
    ELSE Ok([header |-> header.val, uncles |-> uncles.val, txs |-> txs.val])

ErigonBlock_decode(rlp) ==
    ErigonBlock_new(val_at_ErigonHeader(rlp, 0), ErigonBlock_txs(rlp),
                    list_at_ErigonHeader(rlp, 2))

\* ------------------------------------------------------------------------
\* The encoding of the records, as the source format writes them: every
\* field a string at its position, a number by its shortest big-endian
\* bytes, an absent recipient by the empty string, the nonce by its bytes
\* ------------------------------------------------------------------------
ErigonHeader_encode(h) ==
    List(<< Scalar(h.parent_hash), Scalar(h.uncle_hash), Scalar(h.coinbase),
            Scalar(h.state_root), Scalar(h.tx_hash), Scalar(h.receipts_root),
            Scalar(h.logs_bloom), Scalar(to_be_bytes_trimmed(h.difficulty)),
            Scalar(to_be_bytes_trimmed(h.number)),
            Scalar(to_be_bytes_trimmed(h.gas_limit)),
            Scalar(to_be_bytes_trimmed(h.gas_used)),
            Scalar(to_be_bytes_trimmed(h.timestamp)),
            Scalar(h.extra_data), Scalar(h.mix_hash), Scalar(h.block_nonce) >>)

LegacyTx_encode(tx) ==
    List(<< Scalar(to_be_bytes_trimmed(tx.nonce)),
            Scalar(to_be_bytes_trimmed(tx.gas_price)),
            Scalar(to_be_bytes_trimmed(tx.gas)),
            Scalar(IF tx.to = None THEN <<>> ELSE tx.to[1]),
            Scalar(to_be_bytes_trimmed(tx.value)), Scalar(tx.data),
            Scalar(to_be_bytes_trimmed(tx.v)), Scalar(to_be_bytes_trimmed(tx.r)),
            Scalar(to_be_bytes_trimmed(tx.s)) >>)

\* ------------------------------------------------------------------------
\* blocks.rs: the record normalisers
\* ------------------------------------------------------------------------

\* U64::from_little_endian(slice).as_u64(): the slice may hold at most 8 bytes
from_little_endian(slice) ==
    IF Len(slice) > U64Len THEN Panic("from_little_endian")
    ELSE Ok(from_little_endian_value(slice))

\* Mutant: the state root and the receipts root taken from each other's field
Header_from_swapped_roots(header) ==
    LET nonce == from_little_endian(header.block_nonce)
    IN  IF nonce.k # "ok" THEN nonce
        ELSE Ok([ parent_hash |-> header.parent_hash,
                  ommers_hash |-> header.uncle_hash,
                  beneficiary |-> header.coinbase,
                  state_root |-> header.receipts_root,
                  transactions_root |-> header.tx_hash,
                  receipts_root |-> header.state_root,
                  withdrawals_root |-> None,
                  logs_bloom |-> header.logs_bloom,
                  difficulty |-> header.difficulty,
                  number |-> header.number,
                  gas_limit |-> header.gas_limit,
                  gas_used |-> header.gas_used,
                  timestamp |-> header.timestamp,
                  mix_hash |-> header.mix_hash,
                  nonce |-> nonce.val,
                  base_fee_per_gas |-> None,
                  extra_data |-> header.extra_data ])

\* impl From<ErigonHeader> for Header
Header_from(header) ==
    LET nonce == from_little_endian(header.block_nonce)
    IN  IF nonce.k # "ok" THEN nonce
        ELSE Ok([ parent_hash |-> header.parent_hash,
                  ommers_hash |-> header.uncle_hash,
                  beneficiary |-> header.coinbase,
                  state_root |-> header.state_root,
                  transactions_root |-> header.tx_hash,
                  receipts_root |-> header.receipts_root,
                  withdrawals_root |-> None,
                  logs_bloom |-> header.logs_bloom,
                  difficulty |-> header.difficulty,
                  number |-> header.number,
                  gas_limit |-> header.gas_limit,
                  gas_used |-> header.gas_used,
                  timestamp |-> header.timestamp,
                  mix_hash |-> header.mix_hash,
                  nonce |-> nonce.val,
                  base_fee_per_gas |-> None,
                  extra_data |-> header.extra_data ])

\* Header::seal_slow: the header with its hash
seal_slow(header) == [header |-> header, hash |-> Keccak(header)]

\* Mutant: the parity taken from an even v
odd_y_parity_even(v) == (v % 2) = 0

\* The signature y-parity of a legacy v
odd_y_parity(v) == (v % 2) = 1

\* The transaction kind of an optional recipient
TransactionKind_of(to) ==
    IF to # None THEN [kind |-> "Call", to |-> to[1]]
    ELSE [kind |-> "Create", to |-> <<>>]

\* impl From<LegacyTx> for TransactionSigned
TransactionSigned_from(tx) ==
    [ transaction |-> [ chain_id |-> None, nonce |-> tx.nonce,
                        gas_price |-> tx.gas_price, gas_limit |-> tx.gas,
                        to |-> TransactionKind_of(tx.to),
                        value |-> tx.value, input |-> tx.data ],
      signature |-> [ r |-> tx.r, s |-> tx.s,
                      odd_y_parity |-> odd_y_parity(tx.v) ] ]

\* impl From<ErigonBlock> for SealedBlock
SealedBlock_from(block) ==
    LET header == Header_from(block.header)
        uncles == [i \in DOMAIN block.uncles |-> Header_from(block.uncles[i])]
    IN  IF header.k # "ok" THEN header
        ELSE IF FirstFailure(uncles).k # "ok" THEN FirstFailure(uncles)
        ELSE Ok([ header |-> seal_slow(header.val),
                  body |-> [i \in DOMAIN block.txs |-> TransactionSigned_from(block.txs[i])],
                  ommers |-> [i \in DOMAIN uncles |-> seal_slow(uncles[i].val)],
                  withdrawals |-> None ])

\* ------------------------------------------------------------------------
\* The rlp crate's framing of a byte buffer
\* ------------------------------------------------------------------------

\* An item whose header promises more bytes than the buffer holds
Malformed == [t |-> "bad", b |-> <<>>, items |-> <<>>]

\* PayloadInfo::from: the header length hl and payload length pl of the
\* first item of the non-empty buffer bs; ok when the buffer holds them
PayloadInfo_new(bs, hl, pl, list) ==
    [hl |-> hl, pl |-> pl, list |-> list, ok |-> hl + pl <= Len(bs)]

PayloadInfo_long(bs, lenlen, list) ==
    IF lenlen > 2 \/ Len(bs) < 1 + lenlen
    THEN [hl |-> 1 + lenlen, pl |-> 0, list |-> list, ok |-> FALSE]
    ELSE PayloadInfo_new(bs, 1 + lenlen, from_big_endian(SubSeq(bs, 2, 1 + lenlen)), list)

PayloadInfo_from(bs) ==
    IF bs[1] < 128 THEN PayloadInfo_new(bs, 0, 1, FALSE)
    ELSE IF bs[1] < 184 THEN PayloadInfo_new(bs, 1, bs[1] - 128, FALSE)
    ELSE IF bs[1] < 192 THEN PayloadInfo_long(bs, bs[1] - 183, FALSE)
    ELSE IF bs[1] < 248 THEN PayloadInfo_new(bs, 1, bs[1] - 192, TRUE)
    ELSE PayloadInfo_long(bs, bs[1] - 247, TRUE)

\* Rlp::new(bs): the view of the first item of the buffer, as the item tree
\* that at() and iter() walk; a list ends at its first malformed item
RECURSIVE Rlp_view(_, _)
RECURSIVE Rlp_items(_)
Rlp_new(bs) == IF bs = <<>> THEN Null ELSE Rlp_view(bs, PayloadInfo_from(bs))
Rlp_view(bs, info) ==
    IF ~info.ok THEN Malformed
    ELSE IF info.list THEN List(Rlp_items(SubSeq(bs, info.hl + 1, info.hl + info.pl)))
    ELSE Scalar(SubSeq(bs, info.hl + 1, info.hl + info.pl))
Rlp_rest(bs, info) ==
    IF ~info.ok THEN <<>>
    ELSE <<Rlp_view(bs, info)>> \o Rlp_items(SubSeq(bs, info.hl + info.pl + 1, Len(bs)))
Rlp_items(bs) == IF bs = <<>> THEN <<>> ELSE Rlp_rest(bs, PayloadInfo_from(bs))

\* ------------------------------------------------------------------------
\* receipts.rs: the receipt mapper and the dump reader
\* ------------------------------------------------------------------------

\* Decodable for String: the bytes of a scalar, read as UTF-8 (the model
\* holds ASCII text only: a byte of 128 or more is not valid on its own)
decode_String(r) ==
    IF decode_value(r).k # "ok" THEN decode_value(r)
    ELSE IF \E i \in DOMAIN r.b : r.b[i] >= 128 THEN Err("RlpExpectedToBeData")
    ELSE Ok(r.b)

val_at_String(r, i) == LET a == at(r, i) IN IF a.k # "ok" THEN a ELSE decode_String(a.val)

\* rlp.at(i)?.as_raw(): the bytes of the item, header included
as_raw_at(r, i) == LET a == at(r, i) IN IF a.k # "ok" THEN a ELSE Ok(Encode(a.val))

\* impl Decodable for Receipt: sixteen positional fields, each with `?`
Receipt_fields(rlp) ==
    << val_at_u8(rlp, 0), val_at_bytes(rlp, 1), val_at_u64(rlp, 2),
       val_at_u64(rlp, 3), val_at_bytes(rlp, 4), as_raw_at(rlp, 5),
       val_at_H256(rlp, 6), val_at_String(rlp, 7), val_at_u64(rlp, 8),
       val_at_H256(rlp, 9), val_at_U256(rlp, 10), val_at_u64(rlp, 11),
       val_at_U256(rlp, 12), val_at_U256(rlp, 13), val_at_U256(rlp, 14),
       val_at_String(rlp, 15) >>

Receipt_new(f) ==
    IF FirstFailure(f).k # "ok" THEN FirstFailure(f)
    ELSE Ok([ ty |-> f[1].val, post_state |-> f[2].val, status |-> f[3].val,
              cumulative_gas_used |-> f[4].val, bloom |-> f[5].val,
              logs |-> f[6].val, tx_hash |-> f[7].val,
              contract_address |-> f[8].val, gas_used |-> f[9].val,
              block_hash |-> f[10].val, block_number |-> f[11].val,
              transaction_index |-> f[12].val, l1_gas_price |-> f[13].val,
              l1_gas_used |-> f[14].val, l1_fee |-> f[15].val,
              l1_fee_scalar |-> f[16].val ])

Receipt_decode(rlp) == Receipt_new(Receipt_fields(rlp))

\* receipts.append / receipts.push after the receipts of the items before
append_receipts(head, rest) ==
    IF head.k # "ok" THEN head
    ELSE IF rest.k # "ok" THEN rest
    ELSE Ok(head.val \o rest.val)

\* Receipt::decode_receipt_vec: an empty item is skipped, an item that
\* decodes is pushed, any other item is recursed into with `?`
RECURSIVE decode_receipt_vec(_)
RECURSIVE decode_receipt_items(_)
\* Mutant: an item that is no receipt and no list reported as an error
decode_receipt_item_strict(item, r) ==
    IF is_empty(item) THEN Ok(<<>>)
    ELSE IF r.k = "ok" THEN Ok(<<r.val>>)
    ELSE IF ~is_list(item) THEN r
    ELSE decode_receipt_vec(item)

decode_receipt_item(item, r) ==
    IF is_empty(item) THEN Ok(<<>>)
    ELSE IF r.k = "ok" THEN Ok(<<r.val>>)
    ELSE decode_receipt_vec(item)
decode_receipt_items(items) ==
    IF items = <<>> THEN Ok(<<>>)
    ELSE append_receipts(decode_receipt_item(items[1], Receipt_decode(items[1])),
                         decode_receipt_items(Tail(items)))
decode_receipt_vec(rlp) == decode_receipt_items(iter(rlp))

\* Mutant: the buffer decoded with its leading byte
Receipt_from_file_whole(bytes) == decode_receipt_vec(Rlp_new(bytes))

\* Receipt::from_file: &data[1..] panics on an empty file
Receipt_from_file(bytes) ==
    IF bytes = <<>> THEN Panic("range start index 1 out of range")
    ELSE decode_receipt_vec(Rlp_new(Tail(bytes)))

\* ------------------------------------------------------------------------
\* Digests
\* ------------------------------------------------------------------------

\* A digest is kept as its preimage: the raw bytes hashed, or the item whose
\* encoding is hashed. On the wire it is a string of HashLen bytes.
Raw(bytes) == [t |-> "raw", b |-> bytes, items |-> <<>>]
Digest(x) == [t |-> "h", b |-> <<>>, items |-> <<x>>]
keccak256(bytes) == Digest(Raw(bytes))

\* A 32-byte value read from a file
H256(n) == Scalar(Rep(HashLen, n))

KECCAK_EMPTY == keccak256(<<>>)
EMPTY_ROOT == keccak256(<<128>>)

\* The RLP string that holds the encoding of item
Bytes(item) == [t |-> "str", b |-> <<>>, items |-> <<item>>]

RECURSIVE SumLen(_)
SumLen(ns) == IF ns = <<>> THEN 0 ELSE ns[1] + SumLen(Tail(ns))

\* Encodable::length: the number of bytes of the encoding
RECURSIVE length(_)
length_payload(x) == SumLen([i \in DOMAIN x.items |-> length(x.items[i])])
length(x) ==
    CASE x.t = "n" -> 0
      [] x.t = "s" -> Len(Encode(x))
      [] x.t = "raw" -> Len(x.b)
      [] x.t = "h" -> 1 + HashLen
      [] x.t = "l" -> Len(EncodeHeader(length_payload(x), 192)) + length_payload(x)
      [] x.t = "str" -> Len(EncodeHeader(length_payload(x), 128)) + length_payload(x)
      [] x.t = "enc" -> Len(x.b) + length_payload(x)

\* ------------------------------------------------------------------------
\* state.rs: the account payload
\* ------------------------------------------------------------------------
unwrap_or(opt, default) == IF opt = None THEN default ELSE opt[1]

u64_item(n) == Scalar(to_be_bytes_trimmed(n))
U256_item(n) == Scalar(to_be_bytes_trimmed(n))

\* ea.code_hash.as_ref().map_or(KECCAK_EMPTY, keccak256)
code_hash_field(ea) ==
    IF ea.code_hash = None THEN KECCAK_EMPTY ELSE keccak256(ea.code_hash[1].b)

\* Mutant: the root counted only when the account has one
exported_account_payload_len_given_root(ea) ==
    length(u64_item(unwrap_or(ea.nonce, 0))) + length(U256_item(ea.balance))
        + (IF ea.root = None THEN 0 ELSE length(ea.root[1])) + length(code_hash_field(ea))

exported_account_payload_len(ea) ==
    length(u64_item(unwrap_or(ea.nonce, 0))) + length(U256_item(ea.balance))
        + length(EMPTY_ROOT) + length(code_hash_field(ea))

\* encode_exported_account: the list header, then the four fields
encode_exported_account(ea) ==
    [ t |-> "enc",
      b |-> EncodeHeader(exported_account_payload_len(ea), 192),
      items |-> << u64_item(unwrap_or(ea.nonce, 0)), U256_item(ea.balance),
                   unwrap_or(ea.root, EMPTY_ROOT), code_hash_field(ea) >> ]

\* ------------------------------------------------------------------------
\* triehash: sec_trie_root
\* ------------------------------------------------------------------------

\* The nibbles of a digest: the model keeps the first two of them, enough
\* to tell the keys of the model apart, in an order that is not the order
\* of the preimages
nibbles(d) ==
    << ((d.items[1].b[1] \div 2) * 7) % 16, (d.items[1].b[1] * 11) % 16 >>

RECURSIVE LexLess(_, _)
LexLess(a, b) ==
    IF a = <<>> THEN b # <<>>
    ELSE IF b = <<>> THEN FALSE
    ELSE IF a[1] # b[1] THEN a[1] < b[1]
    ELSE LexLess(Tail(a), Tail(b))

\* The entries in ascending key order, one for a key: the last one given
RECURSIVE sorted_keys(_)
sorted_keys(K) ==
    IF K = {} THEN <<>>
    ELSE <<CHOOSE k \in K : \A o \in K \ {k} : LexLess(k, o)>>
            \o sorted_keys(K \ {CHOOSE k \in K : \A o \in K \ {k} : LexLess(k, o)})

last_with_key(input, k) ==
    input[CHOOSE i \in DOMAIN input :
            /\ input[i][1] = k
            /\ \A j \in DOMAIN input : input[j][1] = k => j <= i]

\* input.into_iter().collect::<BTreeMap<_, _>>()
BTreeMap_collect(input) ==
    [i \in 1..Cardinality({input[j][1] : j \in DOMAIN input}) |->
        last_with_key(input, sorted_keys({input[j][1] : j \in DOMAIN input})[i])]

\* hex_prefix_encode: the flag nibble, the odd nibble, then the pairs
RECURSIVE nibble_pairs(_)
nibble_pairs(ns) ==
    IF Len(ns) < 2 THEN <<>>
    ELSE <<16 * ns[1] + ns[2]>> \o nibble_pairs(Tail(Tail(ns)))

hex_prefix_encode(ns, leaf) ==
    IF Len(ns) % 2 = 1
    THEN <<(IF leaf THEN 32 ELSE 0) + 16 + ns[1]>> \o nibble_pairs(Tail(ns))
    ELSE <<IF leaf THEN 32 ELSE 0>> \o nibble_pairs(ns)

RECURSIVE shared_prefix_len(_, _)
shared_prefix_len(a, b) ==
    IF a = <<>> \/ b = <<>> \/ a[1] # b[1] THEN 0
    ELSE 1 + shared_prefix_len(Tail(a), Tail(b))

\* The longest prefix the first key shares with every other key
shared_prefix(input) ==
    MinOf({Len(input[1][1])}
            \cup {shared_prefix_len(input[1][1], input[i][1]) : i \in 2..Len(input)})

\* take_while(|pair| pair.0[pre_len] == i).count() over input[begin..]
RECURSIVE take_while_count(_, _, _, _)
take_while_count(input, begin, pre_len, i) ==
    IF begin >= Len(input) THEN 0
    ELSE IF pre_len >= Len(input[begin + 1][1]) THEN 0
    ELSE IF input[begin + 1][1][pre_len + 1] # i THEN 0
    ELSE 1 + take_while_count(input, begin + 1, pre_len, i)

RECURSIVE hash256rlp(_, _)
RECURSIVE branch_slots(_, _, _, _)

\* hash256aux: a node shorter than a digest is appended raw, any other by
\* its digest
hash256aux_out(out) == IF length(out) < HashLen THEN out ELSE Digest(out)
hash256aux(input, pre_len) == hash256aux_out(hash256rlp(input, pre_len))

branch_slot(input, pre_len, begin, i, n) ==
    << IF n = 0 THEN Scalar(<<>>)
       ELSE hash256aux(SubSeq(input, begin + 1, begin + n), pre_len + 1) >>
        \o branch_slots(input, pre_len, begin + n, i + 1)

branch_slots(input, pre_len, begin, i) ==
    IF i = 16 THEN <<>>
    ELSE branch_slot(input, pre_len, begin, i, take_while_count(input, begin, pre_len, i))

hash256rlp_many(input, pre_len, shared) ==
    IF shared > pre_len
    THEN List(<< Scalar(hex_prefix_encode(SubSeq(input[1][1], pre_len + 1, shared), FALSE)),
                 hash256aux(input, shared) >>)
    ELSE List(branch_slots(input, pre_len,
                           IF pre_len = Len(input[1][1]) THEN 1 ELSE 0, 0)
              \o << IF pre_len = Len(input[1][1]) THEN Bytes(input[1][2])
                    ELSE Scalar(<<>>) >>)

\* Mutant: the empty input encoded as the empty list, not the empty string
hash256rlp_empty_list(input, pre_len) ==
    IF input = <<>> THEN List(<<>>)
    ELSE IF Len(input) = 1
    THEN List(<< Scalar(hex_prefix_encode(
                     SubSeq(input[1][1], pre_len + 1, Len(input[1][1])), TRUE)),
                 Bytes(input[1][2]) >>)
    ELSE hash256rlp_many(input, pre_len, shared_prefix(input))

hash256rlp(input, pre_len) ==
    IF input = <<>> THEN Scalar(<<>>)
    ELSE IF Len(input) = 1
    THEN List(<< Scalar(hex_prefix_encode(
                     SubSeq(input[1][1], pre_len + 1, Len(input[1][1])), TRUE)),
                 Bytes(input[1][2]) >>)
    ELSE hash256rlp_many(input, pre_len, shared_prefix(input))

\* H::hash(&stream.out())
hash_out(out) == IF out.t = "s" THEN keccak256(Encode(out)) ELSE Digest(out)

\* Mutant: the entries taken in the order given, not collected into the map
trie_root_unsorted(input) == hash_out(hash256rlp(input, 0))

trie_root(input) == hash_out(hash256rlp(BTreeMap_collect(input), 0))

sec_trie_root(input) ==
    trie_root([i \in DOMAIN input |-> <<nibbles(keccak256(input[i][1])), input[i][2]>>])

\* Mutant: an account that lacks its nonce left out of the pairs
state_accounts_with_nonce(state, order) ==
    [i \in DOMAIN SelectSeq(order, LAMBDA a : state[a].nonce # None) |->
        << SelectSeq(order, LAMBDA a : state[a].nonce # None)[i],
           encode_exported_account(state[SelectSeq(order, LAMBDA a : state[a].nonce # None)[i]]) >>]

\* state_root_hash over the pairs of state in the iteration order given
state_accounts(state, order) ==
    [i \in DOMAIN order |-> <<order[i], encode_exported_account(state[order[i]])>>]

state_root_hash(state, order) == Ok(sec_trie_root(state_accounts(state, order)))

\* ------------------------------------------------------------------------
\* genesis.rs: the genesis header and the allocation
\* ------------------------------------------------------------------------

\* Text is a sequence of character codes
IsDigit(c) == c >= 48 /\ c <= 57
IsHexDigit(c) == IsDigit(c) \/ (c >= 97 /\ c <= 102) \/ (c >= 65 /\ c <= 70)
HexValue(c) == IF IsDigit(c) THEN c - 48 ELSE IF c >= 97 THEN c - 87 ELSE c - 55

\* str::parse for an unsigned number in decimal digits
RECURSIVE decimal_value(_)
decimal_value(text) ==
    IF text = <<>> THEN 0
    ELSE 10 * decimal_value(SubSeq(text, 1, Len(text) - 1)) + (text[Len(text)] - 48)

parse(text) ==
    IF text = <<>> \/ \E i \in DOMAIN text : ~IsDigit(text[i]) THEN Err("ParseError")
    ELSE Ok(decimal_value(text))

\* hex::decode: an even number of hex digits
hex_decode(text) ==
    IF Len(text) % 2 = 1 THEN Err("OddLength")
    ELSE IF \E i \in DOMAIN text : ~IsHexDigit(text[i]) THEN Err("InvalidHexCharacter")
    ELSE Ok([i \in 1..(Len(text) \div 2) |->
                16 * HexValue(text[2 * i - 1]) + HexValue(text[2 * i])])

\* str::strip_prefix("0x").unwrap_or(text)
strip_0x(text) ==
    IF Len(text) >= 2 /\ text[1] = 48 /\ text[2] = 120
    THEN SubSeq(text, 3, Len(text)) ELSE text

\* The digests of the encoded empty list and of the empty trie, as bytes
EMPTY_LIST_HASH ==
    <<29, 204, 77, 232, 222, 199, 93, 122, 171, 133, 181, 103, 182, 204,
      212, 26, 211, 18, 69, 27, 148, 138, 116, 19, 240, 161, 66, 253, 64,
      212, 147, 71>>
EMPTY_ROOT_bytes ==
    <<86, 232, 31, 23, 27, 204, 85, 166, 255, 131, 69, 230, 146, 192, 248,
      110, 91, 72, 224, 27, 153, 108, 173, 192, 1, 98, 47, 181, 227, 99,
      180, 33>>

\* Header::default()
Header_default ==
    [ parent_hash |-> Rep(HashLen, 0),
      ommers_hash |-> EMPTY_LIST_HASH,
      beneficiary |-> Rep(AddrLen, 0),
      state_root |-> EMPTY_ROOT_bytes,
      transactions_root |-> EMPTY_ROOT_bytes,
      receipts_root |-> EMPTY_ROOT_bytes,
      withdrawals_root |-> None,
      logs_bloom |-> Rep(BloomLen, 0),
      difficulty |-> 0,
      number |-> 0,
      gas_limit |-> 0,
      gas_used |-> 0,
      timestamp |-> 0,
      mix_hash |-> Rep(HashLen, 0),
      nonce |-> 0,
      base_fee_per_gas |-> None,
      extra_data |-> <<>> ]

\* Genesis::to_header: three fields parsed and unwrapped, the rest default
to_header_new(difficulty, gas_limit, extra_data) ==
    IF difficulty.k # "ok" \/ gas_limit.k # "ok" \/ extra_data.k # "ok"
    THEN Panic("unwrap on Err")
    ELSE Ok([ Header_default EXCEPT
                !.difficulty = difficulty.val,
                !.gas_limit = gas_limit.val,
                !.extra_data = extra_data.val ])

\* Mutant: the extra data taken as the characters of the string
to_header_raw_extradata(genesis) ==
    to_header_new(parse(genesis.difficulty), parse(genesis.gas_limit),
                  Ok(genesis.extradata))

to_header(genesis) ==
    to_header_new(parse(genesis.difficulty), parse(genesis.gas_limit),
                  hex_decode(strip_0x(genesis.extradata)))

\* Mutant: the code is taken to be there whenever it is given
has_code_if_given(account) == account.code # None

\* !account.code.clone().unwrap_or_default().is_empty()
has_code(account) == unwrap_or(account.code, <<>>) # <<>>

code_hash_of(account) ==
    IF has_code(account) THEN Some(keccak256(account.code[1])) ELSE None

\* The account record put into PlainAccountState
RethAccount(account) ==
    [ balance |-> account.balance,
      nonce |-> unwrap_or(account.nonce, 0),
      bytecode_hash |-> code_hash_of(account) ]

\* The storage entries put under the address: the key as it is, the value
\* read as a big-endian number
storage_entries(address, account) ==
    IF account.storage = None THEN {}
    ELSE { <<address, [key |-> p[1], value |-> from_big_endian(p[2])]>> :
             p \in account.storage[1] }

\* ------------------------------------------------------------------------
\* The inputs: source records as an exporter may write them
\* ------------------------------------------------------------------------
Replace(item, i, x) == List([item.items EXCEPT ![i + 1] = x])
Truncate(item, n) == List(SubSeq(item.items, 1, n))

\* The nonce field of a source header: the 8-byte string of the format, and
\* lists of single bytes
NoncePool ==
    { Scalar(Rep(8, 0)),
      Scalar(<<1, 0, 0, 0, 0, 0, 0, 0>>),
      Scalar(<<0, 1, 0, 0, 0, 0, 0, 0>>),
      Scalar(<<>>),
      List(<<Scalar(<<2>>), Scalar(<<1>>)>>),
      List(<<Scalar(<<1>>)>> \o Rep(7, Scalar(<<>>))),
      List(Rep(9, Scalar(<<>>))),
      List(<<Scalar(<<0>>)>>) }

HeaderItem(number, nonce) ==
    List(<< Scalar(Rep(HashLen, 1)), Scalar(Rep(HashLen, 2)), Scalar(Rep(AddrLen, 3)),
            Scalar(Rep(HashLen, 4)), Scalar(Rep(HashLen, 5)), Scalar(Rep(HashLen, 6)),
            Scalar(Rep(BloomLen, 7)), Scalar(<<2>>), Scalar(to_be_bytes_trimmed(number)),
            Scalar(<<228, 225, 192>>), Scalar(<<82, 8>>), Scalar(<<100>>),
            Scalar(<<171, 205>>), Scalar(Rep(HashLen, 8)), nonce >>)

BadFieldPool == { Scalar(<<0, 1>>), List(<<>>) }

\* A four-byte number, and a number one byte wider than the field of width n
WideNumber == Scalar(<<127, 255, 255, 255>>)
TooWide(n) == Scalar(Rep(n + 1, 1))

HeaderPool ==
    { HeaderItem(n, nonce) : n \in 0..MaxNumber, nonce \in NoncePool }
    \cup { Replace(HeaderItem(1, Scalar(Rep(8, 0))), i, x) : i \in 0..14, x \in BadFieldPool }
    \cup { Replace(HeaderItem(1, Scalar(Rep(8, 0))), i, WideNumber) : i \in 7..11 }
    \cup { Replace(HeaderItem(1, Scalar(Rep(8, 0))), i, TooWide(U64Len)) : i \in 8..11 }
    \cup { Truncate(HeaderItem(1, Scalar(Rep(8, 0))), 14), Scalar(<<>>), Null }

\* The recipient field of a source transaction
ToPool ==
    { Scalar(<<>>), Scalar(Rep(AddrLen, 17)), Scalar(Rep(AddrLen, 0)),
      Scalar(Rep(AddrLen - 1, 17)), Scalar(Rep(AddrLen + 1, 17)),
      List(<<>>), List(<<Scalar(Rep(AddrLen, 17))>>) }

VPool == 0..MaxV \cup {27, 28, 37, 38}

TxItem(nonce, to, v) ==
    List(<< Scalar(to_be_bytes_trimmed(nonce)), Scalar(<<1>>), Scalar(<<82, 8>>), to,
            Scalar(<<3, 232>>), Scalar(<<96, 128>>), Scalar(to_be_bytes_trimmed(v)),
            Scalar(<<11, 12>>), Scalar(<<13, 14>>) >>)

TxPool ==
    { TxItem(n, to, v) : n \in 0..MaxNumber, to \in ToPool, v \in VPool }
    \cup { Replace(TxItem(1, Scalar(<<>>), 27), i, x) : i \in 0..8, x \in BadFieldPool }
    \cup { Replace(TxItem(1, Scalar(<<>>), 27), i, WideNumber) : i \in {0, 1, 2, 4} }
    \cup { Replace(TxItem(1, Scalar(<<>>), 27), i, TooWide(U64Len)) : i \in {0, 2} }
    \cup { Replace(TxItem(1, Scalar(<<>>), 27), i, TooWide(U128Len)) : i \in {1, 4} }
    \cup { Truncate(TxItem(1, Scalar(<<>>), 27), 8), Scalar(<<>>), Null }

\* A source block record: header, transaction list, uncle list
BlockItem(header, txs, uncles) == List(<<header, List(txs), List(uncles)>>)

PlainHeader(n) == HeaderItem(n, Scalar(Rep(8, 0)))
GoodTxs == << TxItem(0, Scalar(<<>>), 28), TxItem(1, Scalar(Rep(AddrLen, 17)), 27) >>
GoodBlock(n) ==
    IF n = 0 THEN BlockItem(PlainHeader(0), <<>>, <<>>)
    ELSE BlockItem(PlainHeader(n), GoodTxs,
                   <<HeaderItem(n - 1, Scalar(<<1, 0, 0, 0, 0, 0, 0, 0>>)), PlainHeader(n + 1)>>)

BlockPool ==
    { GoodBlock(n) : n \in 0..MaxNumber + 1 }
    \cup { BlockItem(Replace(PlainHeader(1), 0, Scalar(<<0, 1>>)), GoodTxs, <<>>),
           BlockItem(PlainHeader(1), <<TxItem(0, Scalar(Rep(AddrLen - 1, 17)), 27)>>, <<>>),
           BlockItem(PlainHeader(1), Append(GoodTxs, Truncate(GoodTxs[1], 8)), <<>>),
           Truncate(GoodBlock(1), 2),
           BlockItem(PlainHeader(1), GoodTxs, <<Truncate(PlainHeader(0), 14)>>),
           Scalar(<<1, 2, 3>>),
           List(<<PlainHeader(1), Scalar(<<1>>), Scalar(<<2>>)>>),
           BlockItem(HeaderItem(1, List(Rep(9, Scalar(<<>>)))), <<>>, <<>>) }

SeqsUpTo(S, n) == UNION { [1..k -> S] : k \in 0..n }

\* The dump file: a top-level list of block records, or an empty file
DumpPool == { List(s) : s \in SeqsUpTo(BlockPool, MaxDump) } \cup { Null }

\* ------------------------------------------------------------------------
\* The inputs: receipt dumps
\* ------------------------------------------------------------------------

\* The receipt with sequence number n as an exporter writes it
ReceiptItem(n) ==
    List(<< Scalar(<<>>), Scalar(<<>>), Scalar(to_be_bytes_trimmed(n % 2)), Scalar(<<n>>),
            Scalar(<<0, n>>), List(<<Scalar(<<n>>)>>), Scalar(Rep(HashLen, n)),
            Scalar(<<>>), Scalar(<<n>>), Scalar(Rep(HashLen, 9)),
            Scalar(<<1>>), Scalar(<<n>>), Scalar(<<1>>), Scalar(<<2>>),
            Scalar(<<3>>), Scalar(<<49>>) >>)

\* The shape of a dump: a receipt, a stray scalar, an empty string, or a
\* list layer around a batch of these
Leaf(n) == [t |-> "r", n |-> n, xs |-> <<>>]
Stray == [t |-> "j", n |-> 0, xs |-> <<>>]
Blank == [t |-> "e", n |-> 0, xs |-> <<>>]
Wrap(xs) == [t |-> "w", n |-> 0, xs |-> xs]

RECURSIVE ShapeItem(_)
ShapeItem(x) ==
    CASE x.t = "r" -> ReceiptItem(x.n)
      [] x.t = "j" -> Scalar(<<5, 5>>)
      [] x.t = "e" -> Scalar(<<>>)
      [] x.t = "w" -> List([i \in DOMAIN x.xs |-> ShapeItem(x.xs[i])])

\* The sequence numbers of the receipts of a shape, left to right
RECURSIVE ShapeReceipts(_)
RECURSIVE ShapeReceiptsAll(_)
ShapeReceipts(x) ==
    IF x.t = "r" THEN <<x.n>>
    ELSE IF x.t = "w" THEN ShapeReceiptsAll(x.xs)
    ELSE <<>>
ShapeReceiptsAll(xs) ==
    IF xs = <<>> THEN <<>> ELSE ShapeReceipts(xs[1]) \o ShapeReceiptsAll(Tail(xs))

Shape0 == { Leaf(n) : n \in 1..MaxReceipt } \cup { Stray, Blank }
Shape1 == Shape0 \cup { Wrap(s) : s \in SeqsUpTo({Leaf(1), Leaf(2)}, 2) }
             \cup { Wrap(<<Wrap(<<Wrap(<<Leaf(2)>>), Leaf(1)>>), Leaf(3)>>) }
ShapePool == { Wrap(s) : s \in SeqsUpTo(Shape1, MaxBatch) }

\* The leading byte of the file
MarkerPool == {1, 200}

\* The files of a dump of shape x; no receipts also as a file of the marker
\* alone and as an empty file
FilesOf(x) ==
    { <<m>> \o Encode(ShapeItem(x)) : m \in MarkerPool }
        \cup (IF x = Wrap(<<>>) THEN { <<>>, <<1>> } ELSE {})

\* ------------------------------------------------------------------------
\* The inputs: exported world states
\* ------------------------------------------------------------------------
Address(n) == Rep(AddrLen, n)

ExportedAccount(balance, code_hash, code, nonce, root, storage) ==
    [ balance |-> balance, code_hash |-> code_hash, code |-> code,
      nonce |-> nonce, root |-> root, storage |-> storage ]

\* The orders in which a map over the keys K may be iterated
Enumerations(K) ==
    { s \in [1..Cardinality(K) -> K] : \A i, j \in DOMAIN s : s[i] = s[j] => i = j }

\* The root over the slots of an account: the trie of the hashed slot keys
\* and the encoded slot values
slot_entries(slots, order) ==
    [i \in DOMAIN order |-> <<order[i].b, U256_item((CHOOSE p \in slots : p[1] = order[i])[2])>>]
storage_root(slots) ==
    sec_trie_root(slot_entries(slots, CHOOSE o \in Enumerations({p[1] : p \in slots}) : TRUE))

\* An account of a balance alone, a contract with its root and slots, and a
\* contract whose export has slots and no root
ExportedAccountPool ==
    { ExportedAccount(1, None, None, None, None, None),
      ExportedAccount(0, Some(H256(4)), Some(<<54, 48>>), Some(1),
                      Some(storage_root({<<H256(1), 1>>})), Some({<<H256(1), 1>>})),
      ExportedAccount(300, Some(H256(6)), None, Some(0), None,
                      Some({<<H256(1), 1>>, <<H256(2), 3>>})) }

\* The states over the addresses 1..MaxAddr
StatePool ==
    UNION { [{Address(n) : n \in S} -> ExportedAccountPool] : S \in SUBSET (1..MaxAddr) }

\* ------------------------------------------------------------------------
\* The inputs: genesis files
\* ------------------------------------------------------------------------
ErigonGenesisAccount(nonce, balance, code, storage) ==
    [ nonce |-> nonce, balance |-> balance, code |-> code, storage |-> storage ]

\* An account without code, a contract with code and a slot, and an account
\* whose code is given and empty
GenesisAccountPool ==
    { ErigonGenesisAccount(None, 1, None, None),
      ErigonGenesisAccount(Some(2), 0, Some(<<96, 0>>),
                           Some({<<Rep(HashLen, 0), Rep(HashLen - 1, 0) \o <<5>>>>})),
      ErigonGenesisAccount(None, 3, Some(<<>>), Some({})) }

AllocPool ==
    UNION { [{Address(n) : n \in S} -> GenesisAccountPool] : S \in SUBSET (1..MaxAddr) }

\* The texts of difficulty, gasLimit and extradata: "1", "15000000",
\* "0x00ff"; extradata without its prefix; a difficulty that is no number
HeaderTextPool ==
    { << <<49>>, <<49, 53, 48, 48, 48, 48, 48, 48>>, <<48, 120, 48, 48, 102, 102>> >>,
      << <<49>>, <<49, 53>>, <<48, 48>> >>,
      << <<120>>, <<49, 53>>, <<48, 120>> >> }

\* The genesis files that can be read, and None for one that cannot
GenesisPool ==
    { Some([ difficulty |-> h[1], gas_limit |-> h[2], extradata |-> h[3], alloc |-> a ]) :
        h \in HeaderTextPool, a \in AllocPool } \cup { None }

\* ------------------------------------------------------------------------
\* State
\* ------------------------------------------------------------------------
VARIABLES
    txIn, txPc, txDecoded, txOut,
    hdrIn, hdrPc, hdrDecoded, hdrOut,
    dump, idx, cur, blocks, pc, db,
    rcSrc, rcFile, rcPc, rcOut,
    state, accounts, root, stPc,
    genesis, gnLeft, gnErr, gnPc,
    cnPc, cnLog, cnRes, cnOut,
    hsDump, hsIdx, headers, hsPc,
    config, cfMap, cfPc

txVars == <<txIn, txPc, txDecoded, txOut>>
hdrVars == <<hdrIn, hdrPc, hdrDecoded, hdrOut>>
blkVars == <<dump, idx, cur, blocks, pc>>
rcVars == <<rcSrc, rcFile, rcPc, rcOut>>
stVars == <<state, accounts, root, stPc>>
gnVars == <<genesis, gnLeft, gnErr, gnPc>>
cnVars == <<cnPc, cnLog, cnRes, cnOut>>
hsVars == <<hsDump, hsIdx, headers, hsPc>>
cfVars == <<config, cfMap, cfPc>>
vars == <<txVars, hdrVars, blkVars, db, rcVars, stVars, gnVars, cnVars, hsVars, cfVars>>

\* The database: each table a set of <<key, value>> entries
EmptyDb ==
    [ Headers |-> {}, CanonicalHeaders |-> {}, HeaderNumbers |-> {},
      BlockBodies |-> {}, BlockOmmers |-> {},
      PlainAccountState |-> {}, PlainStorageState |-> {}, Bytecodes |-> {},
      Receipts |-> {} ]

\* DbTxMut::put on a table with one value for a key
put(table, key, value) == { p \in table : p[1] # key } \cup { <<key, value>> }
\* DbTxMut::put on a DupSort table: the entry is added to those of the key
put_dup(table, key, value) == table \cup { <<key, value>> }
\* DbTx::get
get(table, key) ==
    IF \E p \in table : p[1] = key
    THEN Some((CHOOSE p \in table : p[1] = key)[2]) ELSE None

BlkIdle == dump = Null /\ idx = 0 /\ cur = Err("") /\ blocks = <<>> /\ pc = "idle"
TxIdle == txIn = Null /\ txPc = "idle" /\ txDecoded = Err("") /\ txOut = <<>>
HdrIdle == hdrIn = Null /\ hdrPc = "idle" /\ hdrDecoded = Err("") /\ hdrOut = Err("")
RcIdle == rcSrc = Wrap(<<>>) /\ rcFile = <<>> /\ rcPc = "idle" /\ rcOut = Err("")
StIdle == state = <<>> /\ accounts = <<>> /\ root = Err("") /\ stPc = "idle"
GnIdle == genesis = None /\ gnLeft = {} /\ gnErr = FALSE /\ gnPc = "idle"
CnIdle == cnPc = "idle" /\ cnLog = <<>> /\ cnRes = <<>> /\ cnOut = Err("")
HsIdle == hsDump = Null /\ hsIdx = 0 /\ headers = <<>> /\ hsPc = "idle"
CfIdle == config = <<>> /\ cfMap = <<>> /\ cfPc = "idle"

\* ------------------------------------------------------------------------
\* One legacy transaction record: decoded, then normalised
\* ------------------------------------------------------------------------
TxStart ==
    /\ txIn \in TxPool
    /\ txPc = "start"
    /\ txDecoded = Err("")
    /\ txOut = <<>>

TxDecode ==
    /\ txPc = "start"
    /\ txDecoded' = LegacyTx_decode(txIn)
    /\ txPc' = IF txDecoded'.k = "ok" THEN "decoded" ELSE "failed"
    /\ UNCHANGED <<txIn, txOut, hdrVars, blkVars, db, rcVars, stVars, gnVars, cnVars, hsVars, cfVars>>

TxNormalise ==
    /\ txPc = "decoded"
    /\ txOut' = TransactionSigned_from(txDecoded.val)
    /\ txPc' = "done"
    /\ UNCHANGED <<txIn, txDecoded, hdrVars, blkVars, db, rcVars, stVars, gnVars, cnVars, hsVars, cfVars>>

TxInit == TxStart /\ CnIdle /\ HsIdle /\ CfIdle /\ HdrIdle /\ BlkIdle /\ RcIdle /\ StIdle /\ GnIdle /\ db = EmptyDb
TxNext == TxDecode \/ TxNormalise
SpecTx == TxInit /\ [][TxNext]_vars

\* ------------------------------------------------------------------------
\* One source header: decoded, then normalised
\* ------------------------------------------------------------------------
HdrStart ==
    /\ hdrIn \in HeaderPool
    /\ hdrPc = "start"
    /\ hdrDecoded = Err("")
    /\ hdrOut = Err("")

HdrDecode ==
    /\ hdrPc = "start"
    /\ hdrDecoded' = ErigonHeader_decode(hdrIn)
    /\ hdrPc' = IF hdrDecoded'.k = "ok" THEN "decoded" ELSE "failed"
    /\ UNCHANGED <<hdrIn, hdrOut, txVars, blkVars, db, rcVars, stVars, gnVars, cnVars, hsVars, cfVars>>

HdrNormalise ==
    /\ hdrPc = "decoded"
    /\ hdrOut' = Header_from(hdrDecoded.val)
    /\ hdrPc' = IF hdrOut'.k = "ok" THEN "done" ELSE "panicked"
    /\ UNCHANGED <<hdrIn, hdrDecoded, txVars, blkVars, db, rcVars, stVars, gnVars, cnVars, hsVars, cfVars>>

HdrInit == HdrStart /\ CnIdle /\ HsIdle /\ CfIdle /\ TxIdle /\ BlkIdle /\ RcIdle /\ StIdle /\ GnIdle /\ db = EmptyDb
HdrNext == HdrDecode \/ HdrNormalise
SpecHeader == HdrInit /\ [][HdrNext]_vars

\* ------------------------------------------------------------------------
\* The two record pipelines side by side: a header or a transaction
\* ------------------------------------------------------------------------
RecInit == TxInit \/ HdrInit
RecNext == TxNext \/ HdrNext
SpecRecords == RecInit /\ [][RecNext]_vars

\* ------------------------------------------------------------------------
\* blocks.rs: Command::execute
\* ------------------------------------------------------------------------

\* reth_provider::insert_canonical_block: the header tables and the body of
\* the block; every block but number 0 needs the body of its parent
insert_canonical_block(d, block) ==
    LET number == block.header.header.number
    IN  IF number # 0 /\ get(d.BlockBodies, number - 1) = None
        THEN Err("BlockBody")
        ELSE Ok([ d EXCEPT
                    !.CanonicalHeaders = put(@, number, block.header.hash),
                    !.Headers = put(@, number, block.header.header),
                    !.HeaderNumbers = put(@, block.header.hash, number),
                    !.BlockOmmers = IF block.ommers = <<>> THEN @
                                    ELSE put(@, number, block.ommers),
                    !.BlockBodies = put(@, number, block.body) ])

\* The decode of one top-level record and its conversion to a SealedBlock
into_sealed(erigon_block) ==
    IF erigon_block.k # "ok" THEN erigon_block
    ELSE SealedBlock_from(erigon_block.val)

read_block(item) == into_sealed(ErigonBlock_decode(item))

\* A database that holds the genesis block, and one that does not
GenesisDb == insert_canonical_block(EmptyDb, read_block(GoodBlock(0)).val).val

BlkStart ==
    /\ dump \in DumpPool
    /\ idx = 0
    /\ cur = Err("")
    /\ blocks = <<>>
    /\ pc = "loop"
    /\ db \in {EmptyDb, GenesisDb}

\* The outcome of Decodable::decode(&block): Ok goes on to the push, Err
\* skips the record, a panic ends the process
decoded(erigon_block) ==
    /\ cur' = erigon_block
    /\ pc' = CASE erigon_block.k = "ok" -> "decoded"
              [] erigon_block.k = "err" -> "loop"
              [] erigon_block.k = "panic" -> "panic_decode"

\* One turn of `while let Some(block) = rlp_iter.next()`: the record decoded
DecodeNext ==
    /\ pc = "loop"
    /\ idx < Len(iter(dump))
    /\ decoded(ErigonBlock_decode(iter(dump)[idx + 1]))
    /\ idx' = idx + 1
    /\ UNCHANGED <<dump, blocks, db, txVars, hdrVars, rcVars, stVars, gnVars, cnVars, hsVars, cfVars>>

pushed(block) ==
    /\ pc' = IF block.k = "ok" THEN "loop" ELSE "panic_convert"
    /\ blocks' = IF block.k = "ok" THEN Append(blocks, block.val) ELSE blocks

\* blocks.push(erigon_block.into())
PushBlock ==
    /\ pc = "decoded"
    /\ pushed(SealedBlock_from(cur.val))
    /\ UNCHANGED <<dump, idx, cur, db, txVars, hdrVars, rcVars, stVars, gnVars, cnVars, hsVars, cfVars>>

\* rlp_iter.next() is None: the loop ends
EndOfDump ==
    /\ pc = "loop"
    /\ idx >= Len(iter(dump))
    /\ pc' = "insert"
    /\ UNCHANGED <<dump, idx, cur, blocks, db, txVars, hdrVars, rcVars, stVars, gnVars, cnVars, hsVars, cfVars>>

\* The blocks after the first inserted in order into d, or the first failure
RECURSIVE insert_all(_, _)
insert_all(d, bs) ==
    IF bs = <<>> THEN Ok(d)
    ELSE LET r == insert_canonical_block(d, bs[1])
         IN  IF r.k # "ok" THEN r ELSE insert_all(r.val, Tail(bs))

\* The end of db.update: the transaction committed, or dropped by a panic
commit_or_panic(r) ==
    IF r.k # "ok" THEN pc' = "panic_insert" /\ db' = db
    ELSE pc' = "done" /\ db' = r.val

\* Mutant: the genesis check left out
genesis_missing_never(d) == FALSE

\* if let Ok(None) = tx.get::<tables::Headers>(0)
genesis_missing(d) == get(d.Headers, 0) = None

\* The db.update closure: the genesis check, dbg!(&blocks[0]), then the
\* insertion of blocks[1..], each unwrapped; a panic drops the transaction
InsertBlocks ==
    /\ pc = "insert"
    /\ IF genesis_missing(db)
       THEN pc' = "failed" /\ db' = db
       ELSE IF blocks = <<>>
       THEN pc' = "panic_insert" /\ db' = db
       ELSE commit_or_panic(insert_all(db, Tail(blocks)))
    /\ UNCHANGED <<dump, idx, cur, blocks, txVars, hdrVars, rcVars, stVars, gnVars, cnVars, hsVars, cfVars>>

BlkInit == BlkStart /\ CnIdle /\ HsIdle /\ CfIdle /\ TxIdle /\ HdrIdle /\ RcIdle /\ StIdle /\ GnIdle
BlkNext == DecodeNext \/ PushBlock \/ EndOfDump \/ InsertBlocks
Spec == BlkInit /\ [][BlkNext]_vars

\* ------------------------------------------------------------------------
\* receipts.rs: apply
\* ------------------------------------------------------------------------
RcStart ==
    /\ rcSrc \in ShapePool
    /\ rcFile \in FilesOf(rcSrc)
    /\ rcPc = "start"
    /\ rcOut = Err("")

\* let _receipts = Receipt::from_file(path)?
ReceiptsFromFile ==
    /\ rcPc = "start"
    /\ rcOut' = Receipt_from_file(rcFile)
    /\ rcPc' = CASE rcOut'.k = "ok" -> "decoded"
                [] rcOut'.k = "err" -> "failed"
                [] rcOut'.k = "panic" -> "panicked"
    /\ UNCHANGED <<rcSrc, rcFile, db, txVars, hdrVars, blkVars, stVars, gnVars, cnVars, hsVars, cfVars>>

\* Mutant: the decoded receipts put into the Receipts table
receipts_update_put(d, receipts) ==
    [d EXCEPT !.Receipts = @ \cup { <<i, receipts[i]>> : i \in DOMAIN receipts }]

\* The closure of db.update: Ok(()) with no put
receipts_update(d, receipts) == d

\* db.create_tables()? and the db.update whose closure writes nothing
ReceiptsUpdate ==
    /\ rcPc = "decoded"
    /\ db' = receipts_update(db, rcOut.val)
    /\ rcPc' = "done"
    /\ UNCHANGED <<rcSrc, rcFile, rcOut, txVars, hdrVars, blkVars, stVars, gnVars, cnVars, hsVars, cfVars>>

RcInit == RcStart /\ CnIdle /\ HsIdle /\ CfIdle /\ TxIdle /\ HdrIdle /\ BlkIdle /\ StIdle /\ GnIdle /\ db \in {EmptyDb, GenesisDb}
RcNext == ReceiptsFromFile \/ ReceiptsUpdate
SpecReceipts == RcInit /\ [][RcNext]_vars

\* ------------------------------------------------------------------------
\* state.rs: state_root_hash
\* ------------------------------------------------------------------------
StStart ==
    /\ state \in StatePool
    /\ accounts = <<>>
    /\ root = Err("")
    /\ stPc = "start"

\* state.iter().map(..): the pairs serialised, in the order the map yields
EncodeAccounts ==
    /\ stPc = "start"
    /\ \E order \in Enumerations(DOMAIN state) :
          accounts' = state_accounts(state, order)
    /\ stPc' = "encoded"
    /\ UNCHANGED <<state, root, db, txVars, hdrVars, blkVars, rcVars, gnVars, cnVars, hsVars, cfVars>>

\* sec_trie_root over the serialised pairs
StateRoot ==
    /\ stPc = "encoded"
    /\ root' = Ok(sec_trie_root(accounts))
    /\ stPc' = "rooted"
    /\ UNCHANGED <<state, accounts, db, txVars, hdrVars, blkVars, rcVars, gnVars, cnVars, hsVars, cfVars>>

StInit == StStart /\ CnIdle /\ HsIdle /\ CfIdle /\ TxIdle /\ HdrIdle /\ BlkIdle /\ RcIdle /\ GnIdle /\ db = EmptyDb
StNext == EncodeAccounts \/ StateRoot
SpecState == StInit /\ [][StNext]_vars

\* ------------------------------------------------------------------------
\* state.rs: Command::execute
\* ------------------------------------------------------------------------

\* The Account put into PlainAccountState
plain_account(account) ==
    [ nonce |-> unwrap_or(account.nonce, 0),
      balance |-> account.balance,
      bytecode_hash |-> account.code_hash ]

\* The StorageEntry values put under the address
state_storage_entries(address, account) ==
    IF account.storage = None THEN {}
    ELSE { <<address, [key |-> p[1], value |-> p[2]]>> : p \in account.storage[1] }

\* Bytes::from(hex::decode(code).unwrap_or(vec![])), or no bytes without code
bytecode(account) ==
    IF account.code = None THEN <<>>
    ELSE IF hex_decode(account.code[1]).k # "ok" THEN <<>>
    ELSE hex_decode(account.code[1]).val

\* The body of `for (address, account) in &state`
state_put(d, address, account) ==
    [ d EXCEPT
        !.PlainAccountState = put(@, address, plain_account(account)),
        !.PlainStorageState = @ \cup state_storage_entries(address, account),
        !.Bytecodes = IF account.code_hash = None THEN @
                      ELSE put(@, account.code_hash[1], bytecode(account)) ]

RECURSIVE state_put_all(_, _, _)
state_put_all(d, st, order) ==
    IF order = <<>> THEN d
    ELSE state_put_all(state_put(d, order[1], st[order[1]]), st, Tail(order))

\* Exported accounts with and without code: the code hash of the code, a
\* code hash without code, code with a 0x prefix, the hash of no code
ExportedCodePool ==
    { ExportedAccount(1, None, None, None, None, None),
      ExportedAccount(0, Some(keccak256(<<96>>)), Some(<<54, 48>>), Some(1), None,
                      Some({<<H256(1), 1>>})),
      ExportedAccount(300, Some(H256(6)), None, Some(0), None, None),
      ExportedAccount(0, Some(keccak256(<<96>>)), Some(<<48, 120, 54, 48>>), None, None, None),
      ExportedAccount(2, Some(KECCAK_EMPTY), None, None, None, None) }

StateCodePool ==
    UNION { [{Address(n) : n \in S} -> ExportedCodePool] : S \in SUBSET (1..MaxAddr) }

SiStart ==
    /\ state \in StateCodePool
    /\ accounts = <<>>
    /\ root = Err("")
    /\ stPc = "loaded"

\* The db.update closure: every account of the state, in the order the map
\* yields
StateInsert ==
    /\ stPc = "loaded"
    /\ \E order \in Enumerations(DOMAIN state) :
          db' = state_put_all(db, state, order)
    /\ stPc' = "inserted"
    /\ UNCHANGED <<state, accounts, root, txVars, hdrVars, blkVars, rcVars, gnVars, cnVars, hsVars, cfVars>>

SiInit == SiStart /\ CnIdle /\ HsIdle /\ CfIdle /\ TxIdle /\ HdrIdle /\ BlkIdle /\ RcIdle /\ GnIdle /\ db = EmptyDb
SiNext == StateInsert
SpecStateInsert == SiInit /\ [][SiNext]_vars

\* ------------------------------------------------------------------------
\* genesis.rs: apply
\* ------------------------------------------------------------------------
GnStart ==
    /\ genesis \in GenesisPool
    /\ gnLeft = {}
    /\ gnErr = FALSE
    /\ gnPc = "start"

\* The block that the first db.update inserts
genesis_block(header) ==
    [ header |-> seal_slow(header), body |-> <<>>, ommers |-> <<>>, withdrawals |-> None ]

\* Genesis::from_file(..)?, then the first db.update: the genesis block
\* inserted, the Result of the insertion dropped; a write that fails leaves
\* the tables as they are
block_inserted(header) ==
    IF header.k # "ok"
    THEN gnPc' = "panicked" /\ UNCHANGED <<db, gnLeft, gnErr>>
    ELSE /\ gnPc' = "alloc"
         /\ gnLeft' = DOMAIN genesis[1].alloc
         /\ \E fails \in BOOLEAN :
              /\ gnErr' = fails
              /\ db' = IF fails THEN db
                       ELSE insert_canonical_block(db, genesis_block(header.val)).val

GenesisBlock ==
    /\ gnPc = "start"
    /\ IF genesis = None
       THEN gnPc' = "failed" /\ UNCHANGED <<db, gnLeft, gnErr>>
       ELSE block_inserted(to_header(genesis[1]))
    /\ UNCHANGED <<genesis, txVars, hdrVars, blkVars, rcVars, stVars, cnVars, hsVars, cfVars>>

\* The puts of one account, up to the put that fails
alloc_put(address, account, fail, stored) ==
    /\ db' = [ db EXCEPT
                 !.PlainAccountState =
                    IF fail = "account" THEN @ ELSE put(@, address, RethAccount(account)),
                 !.Bytecodes =
                    IF fail \in {"account", "code"} \/ code_hash_of(account) = None THEN @
                    ELSE put(@, code_hash_of(account)[1], unwrap_or(account.code, <<>>)),
                 !.PlainStorageState =
                    IF fail \in {"account", "code"} THEN @
                    ELSE IF fail = "storage" THEN @ \cup stored
                    ELSE @ \cup storage_entries(address, account) ]
    /\ gnPc' = IF fail = "none" THEN "alloc" ELSE "stopped"
    /\ gnErr' = (gnErr \/ fail # "none")
    /\ gnLeft' = gnLeft \ {address}

\* One turn of genesis.alloc.iter().try_for_each: an account of the map, in
\* the order the map yields; a put that fails ends the iteration
AllocAccount ==
    /\ gnPc = "alloc"
    /\ \E address \in gnLeft :
         \E fail \in {"none", "account", "code", "storage"} :
           /\ fail = "code" => code_hash_of(genesis[1].alloc[address]) # None
           /\ fail = "storage" => storage_entries(address, genesis[1].alloc[address]) # {}
           /\ \E stored \in SUBSET storage_entries(address, genesis[1].alloc[address]) :
                /\ fail # "storage" => stored = {}
                /\ fail = "storage" => stored # storage_entries(address, genesis[1].alloc[address])
                /\ alloc_put(address, genesis[1].alloc[address], fail, stored)
    /\ UNCHANGED <<genesis, txVars, hdrVars, blkVars, rcVars, stVars, cnVars, hsVars, cfVars>>

\* The Result of try_for_each dropped, the transaction committed, Ok(())
GenesisReturn ==
    /\ gnPc = "stopped" \/ (gnPc = "alloc" /\ gnLeft = {})
    /\ gnPc' = "done"
    /\ UNCHANGED <<genesis, gnLeft, gnErr, db, txVars, hdrVars, blkVars, rcVars, stVars, cnVars, hsVars, cfVars>>

GnInit == GnStart /\ CnIdle /\ HsIdle /\ CfIdle /\ TxIdle /\ HdrIdle /\ BlkIdle /\ RcIdle /\ StIdle /\ db = EmptyDb
GnNext == GenesisBlock \/ AllocAccount \/ GenesisReturn
SpecGenesis == GnInit /\ [][GnNext]_vars

\* ------------------------------------------------------------------------
\* genesis.rs: GenesisConfig::map
\* ------------------------------------------------------------------------

\* u64::to_le_bytes: the low k bytes of n, the lowest first
RECURSIVE le_bytes(_, _)
le_bytes(n, k) == IF k = 0 THEN <<>> ELSE <<n % 256>> \o le_bytes(n \div 256, k - 1)
to_le_bytes(n) == le_bytes(n, U64Len)

\* str::as_bytes: the UTF-8 bytes of the characters of a text
RECURSIVE as_bytes(_)
as_bytes(text) ==
    IF text = <<>> THEN <<>>
    ELSE (IF text[1] < 128 THEN <<text[1]>>
          ELSE <<192 + (text[1] \div 64), 128 + (text[1] % 64)>>) \o as_bytes(Tail(text))

\* The byte put under terminalTotalDifficultyPassed
difficulty_byte(c) == IF c.terminal_total_difficulty_passed THEN <<1>> ELSE <<0>>

\* HashMap::insert
insert(map, key, value) ==
    [k \in DOMAIN map \cup {key} |-> IF k = key THEN value ELSE map[k]]

\* The inserts of GenesisConfig::map, in source order
map_entries(c) ==
    << <<"ChainName", as_bytes(c.chain_name)>>,
       <<"chainId", to_le_bytes(c.chain_id)>>,
       <<"homesteadBlock", to_le_bytes(c.chain_id)>>,
       <<"eip150Block", to_le_bytes(c.eip150_block)>>,
       <<"eip150Hash", as_bytes(c.eip150_hash)>>,
       <<"eip155Block", to_le_bytes(c.eip155_block)>>,
       <<"eip158Block", to_le_bytes(c.eip158_block)>>,
       <<"byzantiumBlock", to_le_bytes(c.byzantium_block)>>,
       <<"constantinopleBlock", to_le_bytes(c.constantinople_block)>>,
       <<"petersburgBlock", to_le_bytes(c.petersburg_block)>>,
       <<"istanbulBlock", to_le_bytes(c.istanbul_block)>>,
       <<"muirGlacierBlock", to_le_bytes(c.muir_glacier_block)>>,
       <<"berlinBlock", to_le_bytes(c.berlin_block)>>,
       <<"londonBlock", to_le_bytes(c.london_block)>>,
       <<"arrowGlacierBlock", to_le_bytes(c.arrow_glacier_block)>>,
       <<"grayGlacierBlock", to_le_bytes(c.gray_glacier_block)>>,
       <<"mergeNetsplitBlock", to_le_bytes(c.merge_netsplit_block)>>,
       <<"bedrockBlock", to_le_bytes(c.bedrock_block)>>,
       <<"terminalTotalDifficulty", to_le_bytes(c.terminal_total_difficulty)>>,
       <<"terminalTotalDifficultyPassed", difficulty_byte(c)>>,
       <<"eip1559Elasticity", to_le_bytes(c.optimism.eip1559_elasticity)>>,
       <<"eip1559Denominator", to_le_bytes(c.optimism.eip1559_denominator)>> >>

RECURSIVE insert_entries(_, _)
insert_entries(map, es) ==
    IF es = <<>> THEN map
    ELSE insert_entries(insert(map, es[1][1], es[1][2]), Tail(es))

GenesisConfig_map(c) == insert_entries(<<>>, map_entries(c))

\* A configuration: the names, the chain id, the homestead block, the
\* terminal difficulty and its flag vary, every other block has its own
\* number
GenesisConfig(name, id, homestead, hash, ttd, passed) ==
    [ chain_name |-> name, chain_id |-> id, homestead_block |-> homestead,
      eip150_block |-> 3, eip150_hash |-> hash, eip155_block |-> 4,
      eip158_block |-> 5, byzantium_block |-> 6, constantinople_block |-> 7,
      petersburg_block |-> 8, istanbul_block |-> 9, muir_glacier_block |-> 10,
      berlin_block |-> 11, london_block |-> 12, arrow_glacier_block |-> 13,
      gray_glacier_block |-> 14, merge_netsplit_block |-> 15,
      bedrock_block |-> 4061224, terminal_total_difficulty |-> ttd,
      terminal_total_difficulty_passed |-> passed,
      optimism |-> [eip1559_elasticity |-> 10, eip1559_denominator |-> 50] ]

ConfigPool ==
    { GenesisConfig(name, id, homestead, hash, ttd, passed) :
        name \in { <<>>, <<111, 112>>, <<233>> },
        id \in { 1, 10, 420 },
        homestead \in 0..MaxNumber,
        hash \in { <<>>, <<48, 120, 48, 48>> },
        ttd \in { 0, 2147483647 },
        passed \in BOOLEAN }

CfStart ==
    /\ config \in ConfigPool
    /\ cfMap = <<>>
    /\ cfPc = "start"

\* A call of GenesisConfig::map
ConfigMap ==
    /\ cfPc = "start"
    /\ cfMap' = GenesisConfig_map(config)
    /\ cfPc' = "mapped"
    /\ UNCHANGED <<config, db, txVars, hdrVars, blkVars, rcVars, stVars, gnVars, cnVars, hsVars>>

CfInit == CfStart /\ CnIdle /\ HsIdle /\ TxIdle /\ HdrIdle /\ BlkIdle /\ RcIdle /\ StIdle /\ GnIdle /\ db = EmptyDb
CfNext == ConfigMap
SpecConfig == CfInit /\ [][CfNext]_vars

\* ------------------------------------------------------------------------
\* db.rs: construct
\* ------------------------------------------------------------------------
Stages == <<"genesis", "blocks", "receipts", "state">>

\* The genesis files and the receipts files construct is run on
ConstructGenesisPool ==
    { g \in GenesisPool : g = None \/ Cardinality(DOMAIN g[1].alloc) <= 1 }
ConstructShapePool == { Wrap(<<>>), Wrap(<<Leaf(1)>>), Wrap(<<Wrap(<<Leaf(2)>>), Leaf(1)>>) }

\* The outcomes of blocks::apply and of state::apply, which db.rs calls
blocks_apply(d) == { Ok(d), Err("blocks::apply") }
state_apply(d) == { Ok(d), Err("state::apply") }

\* open_rw_env(..)? succeeded and genesis::apply is called
CnStart ==
    /\ cnPc = "genesis"
    /\ cnLog = <<"genesis">>
    /\ cnRes = <<>>
    /\ cnOut = Err("")
    /\ genesis \in ConstructGenesisPool
    /\ gnLeft = {}
    /\ gnErr = FALSE
    /\ gnPc = "start"

\* Mutant: the next stage is called whatever the stage returned
stage_returned_goes_on(r, next) ==
    /\ cnPc' = next
    /\ cnLog' = IF next = "returned" THEN cnLog ELSE Append(cnLog, next)
    /\ cnOut' = IF next = "returned" THEN Ok(db') ELSE cnOut

\* if let Err(e) = stage(..).await { return Err(e) }, then the next stage;
\* after the last stage, Ok(db)
stage_returned(r, next) ==
    IF r.k = "ok"
    THEN /\ cnPc' = next
         /\ cnLog' = IF next = "returned" THEN cnLog ELSE Append(cnLog, next)
         /\ cnOut' = IF next = "returned" THEN Ok(db') ELSE cnOut
    ELSE /\ cnPc' = "returned"
         /\ cnLog' = cnLog
         /\ cnOut' = r

\* The Result of genesis::apply: Err when the file cannot be read, else Ok
genesis_result == IF gnPc = "done" THEN Ok(<<>>) ELSE Err("genesis::apply")

\* genesis::apply has returned
ConstructGenesis ==
    /\ cnPc = "genesis"
    /\ gnPc \in {"done", "failed"}
    /\ db' = db
    /\ cnRes' = Append(cnRes, genesis_result)
    /\ stage_returned(genesis_result, "blocks")
    /\ UNCHANGED <<txVars, hdrVars, blkVars, rcVars, stVars, gnVars, hsVars, cfVars>>

\* blocks::apply called and returned; receipts::apply is entered with the
\* file it reads
ConstructBlocks ==
    /\ cnPc = "blocks"
    /\ \E r \in blocks_apply(db) :
        /\ db' = IF r.k = "ok" THEN r.val ELSE db
        /\ cnRes' = Append(cnRes, IF r.k = "ok" THEN Ok(<<>>) ELSE r)
        /\ stage_returned(IF r.k = "ok" THEN Ok(<<>>) ELSE r, "receipts")
    /\ IF cnPc' = "receipts"
       THEN /\ rcSrc' \in ConstructShapePool
            /\ rcFile' \in FilesOf(rcSrc')
            /\ rcPc' = "start"
            /\ rcOut' = rcOut
       ELSE UNCHANGED rcVars
    /\ UNCHANGED <<txVars, hdrVars, blkVars, stVars, gnVars, hsVars, cfVars>>

\* The Result of receipts::apply
receipts_result == IF rcPc = "done" THEN Ok(<<>>) ELSE rcOut

\* receipts::apply has returned
ConstructReceipts ==
    /\ cnPc = "receipts"
    /\ rcPc \in {"done", "failed"}
    /\ db' = db
    /\ cnRes' = Append(cnRes, receipts_result)
    /\ stage_returned(receipts_result, "state")
    /\ UNCHANGED <<txVars, hdrVars, blkVars, rcVars, stVars, gnVars, hsVars, cfVars>>

\* state::apply called and returned, then Ok(db)
ConstructState ==
    /\ cnPc = "state"
    /\ \E r \in state_apply(db) :
        /\ db' = IF r.k = "ok" THEN r.val ELSE db
        /\ cnRes' = Append(cnRes, IF r.k = "ok" THEN Ok(<<>>) ELSE r)
        /\ stage_returned(IF r.k = "ok" THEN Ok(<<>>) ELSE r, "returned")
    /\ UNCHANGED <<txVars, hdrVars, blkVars, rcVars, stVars, gnVars, hsVars, cfVars>>

CnInit == CnStart /\ HsIdle /\ CfIdle /\ TxIdle /\ HdrIdle /\ BlkIdle /\ RcIdle /\ StIdle /\ db = EmptyDb
CnNext ==
    \/ GenesisBlock \/ AllocAccount \/ GenesisReturn \/ ConstructGenesis
    \/ ConstructBlocks
    \/ ReceiptsFromFile \/ ReceiptsUpdate \/ ConstructReceipts
    \/ ConstructState
SpecConstruct == CnInit /\ [][CnNext]_vars

\* ------------------------------------------------------------------------
\* block_headers.rs: the record mappers and Command::execute
\* ------------------------------------------------------------------------

\* impl Decodable for LegacyTx of block_headers.rs: nine positional fields,
\* the numbers as U256 and the recipient as bytes, each with `?`
headers_LegacyTx_decode(rlp) ==
    LegacyTx_new(<< val_at_U256(rlp, 0), val_at_U256(rlp, 1), val_at_U256(rlp, 2),
                    val_at_bytes(rlp, 3), val_at_U256(rlp, 4), val_at_bytes(rlp, 5),
                    val_at_U256(rlp, 6), val_at_U256(rlp, 7), val_at_U256(rlp, 8) >>)

\* The transactions of ErigonBlock::decode: the second item of the iterator
\* unwrapped, then every item of it decoded and unwrapped
headers_ErigonBlock_txs(rlp) ==
    IF Len(iter(rlp)) < 2 THEN Panic("unwrap on None")
    ELSE unwrap_all([i \in DOMAIN iter(iter(rlp)[2]) |->
                        headers_LegacyTx_decode(iter(iter(rlp)[2])[i])])

\* impl Decodable for ErigonBlock of block_headers.rs
headers_ErigonBlock_decode(rlp) ==
    ErigonBlock_new(val_at_ErigonHeader(rlp, 0), headers_ErigonBlock_txs(rlp),
                    list_at_ErigonHeader(rlp, 2))

\* The Header { .. } literal pushed for a decoded record
headers_Header(erigon_block) == Header_from(erigon_block.header)

\* Header::hash_slow
hash_slow(header) == Keccak(header)

\* The dump of the block_headers command: block records with equal and
\* different numbers, records that fail and records that panic
HeadersRecordPool ==
    { GoodBlock(n) : n \in 0..MaxNumber }
    \cup { BlockItem(Replace(PlainHeader(1), 9, WideNumber), <<>>, <<>>),
           BlockItem(PlainHeader(0), <<TxItem(0, Scalar(Rep(AddrLen - 1, 17)), 27)>>, <<>>),
           BlockItem(PlainHeader(1), <<Truncate(GoodTxs[1], 8)>>, <<>>),
           List(<<PlainHeader(1)>>),
           Scalar(<<1, 2, 3>>),
           BlockItem(HeaderItem(1, List(Rep(9, Scalar(<<>>)))), <<>>, <<>>) }

HeadersDumpPool == { List(s) : s \in SeqsUpTo(HeadersRecordPool, MaxDump) } \cup { Null }

HsStart ==
    /\ hsDump \in HeadersDumpPool
    /\ hsIdx = 0
    /\ headers = <<>>
    /\ hsPc = "loop"
    /\ db \in {EmptyDb, GenesisDb}

\* The record block decoded and, when Ok, its header pushed
headers_push(erigon_block) ==
    IF erigon_block.k = "panic" THEN hsPc' = "panic_decode" /\ headers' = headers
    ELSE IF erigon_block.k = "err" THEN hsPc' = "loop" /\ headers' = headers
    ELSE IF headers_Header(erigon_block.val).k # "ok"
    THEN hsPc' = "panic_convert" /\ headers' = headers
    ELSE hsPc' = "loop" /\ headers' = Append(headers, headers_Header(erigon_block.val).val)

\* One turn of `while let Some(block) = iter.next()`
HeadersDecodeNext ==
    /\ hsPc = "loop"
    /\ hsIdx < Len(iter(hsDump))
    /\ headers_push(headers_ErigonBlock_decode(iter(hsDump)[hsIdx + 1]))
    /\ hsIdx' = hsIdx + 1
    /\ UNCHANGED <<hsDump, db, txVars, hdrVars, blkVars, rcVars, stVars, gnVars, cnVars, cfVars>>

\* The three puts of one header
headers_put(d, header) ==
    [ d EXCEPT !.Headers = put(@, header.number, header),
               !.CanonicalHeaders = put(@, header.number, hash_slow(header)),
               !.HeaderNumbers = put(@, hash_slow(header), header.number) ]

\* for header in &headers { .. }
RECURSIVE headers_put_all(_, _)
headers_put_all(d, hs) ==
    IF hs = <<>> THEN d ELSE headers_put_all(headers_put(d, hs[1]), Tail(hs))

\* The db.update closure, run when the iterator is at its end
HeadersInsert ==
    /\ hsPc = "loop"
    /\ hsIdx >= Len(iter(hsDump))
    /\ db' = headers_put_all(db, headers)
    /\ hsPc' = "inserted"
    /\ UNCHANGED <<hsDump, hsIdx, headers, txVars, hdrVars, blkVars, rcVars, stVars, gnVars, cnVars, cfVars>>

HsInit == HsStart /\ CfIdle /\ CnIdle /\ TxIdle /\ HdrIdle /\ BlkIdle /\ RcIdle /\ StIdle /\ GnIdle
HsNext == HeadersDecodeNext \/ HeadersInsert
SpecHeaders == HsInit /\ [][HsNext]_vars

\* ------------------------------------------------------------------------
\* Claims about the blocks command (Spec)
\* ------------------------------------------------------------------------

\* The blocks the loop keeps of the records rs: those that decode, converted
RECURSIVE Kept(_)
Kept(rs) ==
    IF rs = <<>> THEN <<>>
    ELSE IF read_block(rs[1]).k = "ok"
         THEN <<read_block(rs[1]).val>> \o Kept(Tail(rs))
         ELSE Kept(Tail(rs))

\* C1: in the top-level loop a record whose decoding fails (a block with a
\* malformed transaction included) is skipped, every other record is kept in
\* dump order, and a failing record never aborts the loop or the process.
C1_FailingRecordSkipped ==
    /\ pc # "panic_decode"
    /\ pc = "insert" => blocks = Kept(iter(dump))

\* A part of the block record rec fails to decode: a position is missing, or
\* the header, a transaction or an uncle fails
NestedFailure(rec) ==
    \/ ~is_list(rec)
    \/ Len(rec.items) < 3
    \/ ErigonHeader_decode(rec.items[1]).k # "ok"
    \/ \E i \in DOMAIN iter(rec.items[2]) : LegacyTx_decode(iter(rec.items[2])[i]).k # "ok"
    \/ \E j \in DOMAIN iter(rec.items[3]) : ErigonHeader_decode(iter(rec.items[3])[j]).k # "ok"

\* C2: a record mapper returns an error for the whole record whenever a
\* positional field or a nested record fails to decode, and never returns Ok
\* with a missing or silently defaulted field.
C2_MapperFailsWholeRecord ==
    (pc \in {"loop", "decoded", "panic_decode"} /\ idx > 0) =>
        /\ NestedFailure(iter(dump)[idx]) => cur.k = "err"
        /\ cur.k = "ok" =>
            /\ is_list(iter(dump)[idx].items[2])
            /\ is_list(iter(dump)[idx].items[3])
            /\ iter(dump)[idx].items[1].items[15].b # <<>> => cur.val.header.block_nonce # <<>>

SrcNumber(h) == from_big_endian(h.items[9].b)

\* C9: a block record is decoded from positions 0, 1 and 2 of its list as
\* header, transactions and ommer headers, and the normalised block holds
\* that header, the transactions in source order and the ommers as full
\* headers in source order, nothing added or dropped.
C9_BlockPositionsAndOrder ==
    (cur.k = "ok" /\ pc \in {"loop", "insert", "done", "failed", "panic_insert"}) =>
        LET rec == iter(dump)[idx]
            b == blocks[Len(blocks)]
        IN  /\ b.header.header.number = SrcNumber(rec.items[1])
            /\ b.header.header.parent_hash = rec.items[1].items[1].b
            /\ b.header.header.state_root = rec.items[1].items[4].b
            /\ Len(b.body) = Len(rec.items[2].items)
            /\ \A i \in DOMAIN b.body :
                /\ b.body[i].transaction.nonce = from_big_endian(rec.items[2].items[i].items[1].b)
                /\ b.body[i].transaction.input = rec.items[2].items[i].items[6].b
            /\ Len(b.ommers) = Len(rec.items[3].items)
            /\ \A j \in DOMAIN b.ommers :
                /\ b.ommers[j].header.number = SrcNumber(rec.items[3].items[j])
                /\ b.ommers[j].header.state_root = rec.items[3].items[j].items[4].b
                /\ b.ommers[j].header.mix_hash = rec.items[3].items[j].items[14].b
            /\ b.withdrawals = None

C9_Witness ==
    /\ cur.k = "ok" /\ pc = "loop" /\ blocks # <<>>
    /\ Len(blocks[Len(blocks)].body) = 2
    /\ Len(blocks[Len(blocks)].ommers) = 2
    /\ blocks[Len(blocks)].ommers[1].header.number # blocks[Len(blocks)].ommers[2].header.number

\* ------------------------------------------------------------------------
\* Claims about the legacy transaction (SpecTx)
\* ------------------------------------------------------------------------

\* C3: a zero-length scalar at the recipient position decodes to no
\* recipient and normalises to a contract creation; a non-empty value of the
\* address width decodes to exactly that address and normalises to a call to
\* it; the emptiness test comes before the narrowing, so an empty recipient
\* is never the field that fails.
C3_RecipientDetection ==
    (txPc \in {"failed", "decoded", "done"} /\ is_list(txIn) /\ Len(txIn.items) >= 4) =>
        LET to == txIn.items[4]
        IN  /\ to = Scalar(<<>>) =>
                /\ txPc = "failed" =>
                     \E i \in DOMAIN LegacyTx_fields(txIn) \ {4} : LegacyTx_fields(txIn)[i].k # "ok"
                /\ txPc \in {"decoded", "done"} => txDecoded.val.to = None
                /\ txPc = "done" => txOut.transaction.to.kind = "Create"
            /\ (is_data(to) /\ Len(to.b) = AddrLen) =>
                /\ txPc = "failed" =>
                     \E i \in DOMAIN LegacyTx_fields(txIn) \ {4} : LegacyTx_fields(txIn)[i].k # "ok"
                /\ txPc \in {"decoded", "done"} => txDecoded.val.to = Some(to.b)
                /\ txPc = "done" => txOut.transaction.to = [kind |-> "Call", to |-> to.b]

C3_Witness ==
    /\ txPc = "done"
    /\ txIn.items[4] = Scalar(<<>>)
    /\ txOut.transaction.to.kind = "Create"

\* C4: the normalised signature's parity flag is true exactly when v mod 2
\* is 1, r and s are carried over unchanged, and no chain id is attached.
C4_SignatureParity ==
    txPc = "done" =>
        /\ txOut.signature.odd_y_parity = (txDecoded.val.v % 2 = 1)
        /\ txDecoded.val.v = from_big_endian(data(txIn.items[7]).val)
        /\ txOut.signature.r = txDecoded.val.r
        /\ txOut.signature.s = txDecoded.val.s
        /\ txOut.transaction.chain_id = None

C4_Witness ==
    /\ txPc = "done"
    /\ txDecoded.val.v = 28
    /\ txDecoded.val.to = None
    /\ txOut.signature.odd_y_parity = FALSE

\* ------------------------------------------------------------------------
\* Claims about the header (SpecHeader)
\* ------------------------------------------------------------------------

\* C8: the canonical header's nonce is the source record's 8-byte nonce
\* field (position 14, a raw byte string) read as a little-endian integer.
C8_NonceLittleEndian ==
    (hdrPc = "done" /\ is_data(hdrIn.items[15]) /\ Len(hdrIn.items[15].b) = U64Len) =>
        hdrOut.val.nonce = from_little_endian_value(hdrIn.items[15].b)

\* C13: header normalisation copies every fixed-width field byte for byte
\* from the source header to the canonical field of the same meaning, with
\* no re-hashing, truncation or swap, and sets withdrawals root and base fee
\* to absent.
C13_FixedWidthFieldsCopied ==
    hdrPc = "done" =>
        /\ hdrOut.val.parent_hash = hdrIn.items[1].b
        /\ hdrOut.val.ommers_hash = hdrIn.items[2].b
        /\ hdrOut.val.beneficiary = hdrIn.items[3].b
        /\ hdrOut.val.state_root = hdrIn.items[4].b
        /\ hdrOut.val.transactions_root = hdrIn.items[5].b
        /\ hdrOut.val.receipts_root = hdrIn.items[6].b
        /\ hdrOut.val.logs_bloom = hdrIn.items[7].b
        /\ hdrOut.val.mix_hash = hdrIn.items[14].b
        /\ Len(hdrOut.val.beneficiary) = AddrLen
        /\ Len(hdrOut.val.logs_bloom) = BloomLen
        /\ hdrOut.val.withdrawals_root = None
        /\ hdrOut.val.base_fee_per_gas = None

C13_Witness ==
    /\ hdrPc = "done"
    /\ hdrOut.val.state_root = Rep(HashLen, 4)
    /\ hdrOut.val.receipts_root = Rep(HashLen, 6)
    /\ hdrOut.val.logs_bloom = Rep(BloomLen, 7)

\* ------------------------------------------------------------------------
\* Claims about both records (SpecRecords)
\* ------------------------------------------------------------------------

\* C14: numeric fields pass through with their value: the header's
\* difficulty, number, gas limit, gas used and timestamp and the
\* transaction's nonce, gas price, gas limit and value in the normalised
\* record are the values encoded in the source record, not clamped and not
\* wrapped around.
C14_NumericFieldsPassThrough ==
    /\ hdrPc = "done" =>
        /\ is_data(hdrIn.items[8]) => hdrOut.val.difficulty = from_big_endian(hdrIn.items[8].b)
        /\ hdrOut.val.number = from_big_endian(hdrIn.items[9].b)
        /\ hdrOut.val.gas_limit = from_big_endian(hdrIn.items[10].b)
        /\ hdrOut.val.gas_used = from_big_endian(hdrIn.items[11].b)
        /\ hdrOut.val.timestamp = from_big_endian(hdrIn.items[12].b)
    /\ txPc = "done" =>
        /\ txOut.transaction.nonce = from_big_endian(txIn.items[1].b)
        /\ txOut.transaction.gas_price = from_big_endian(txIn.items[2].b)
        /\ txOut.transaction.gas_limit = from_big_endian(txIn.items[3].b)
        /\ txOut.transaction.value = from_big_endian(txIn.items[5].b)

C14_Witness ==
    /\ hdrPc = "done"
    /\ hdrIn.items[10] = WideNumber
    /\ hdrOut.val.gas_limit = 2147483647
    /\ hdrOut.val.gas_used = 21000

\* C19: round trip: for every representable header and legacy transaction
\* (and with them block, receipt and account record), empty byte strings in
\* optional fields included, encoding the record and decoding it back
\* yields a value equal to the original.
C19_RoundTrip ==
    /\ txPc \in {"decoded", "done"} =>
        LegacyTx_decode(LegacyTx_encode(txDecoded.val)) = Ok(txDecoded.val)
    /\ hdrPc \in {"decoded", "done", "panicked"} =>
        ErigonHeader_decode(ErigonHeader_encode(hdrDecoded.val)) = Ok(hdrDecoded.val)

\* ------------------------------------------------------------------------
\* Claims about the receipts dump (SpecReceipts)
\* ------------------------------------------------------------------------

\* C10: Receipt::from_file strips exactly one leading byte and returns
\* every receipt of the dump in left-to-right order, the receipts inside any
\* depth of extra list layers unwrapped into the flat result; an extra list
\* layer is never reported as a decode error.
C10_ReceiptsFlattenedInOrder ==
    (rcPc # "start" /\ rcFile # <<>>) =>
        /\ rcOut.k = "ok"
        /\ Len(rcOut.val) = Len(ShapeReceipts(rcSrc))
        /\ \A i \in DOMAIN rcOut.val :
            Receipt_decode(ReceiptItem(ShapeReceipts(rcSrc)[i])) = Ok(rcOut.val[i])

C10_Witness ==
    /\ rcPc = "decoded"
    /\ rcSrc = Wrap(<<Wrap(<<Wrap(<<Wrap(<<Leaf(2)>>), Leaf(1)>>), Leaf(3)>>), Leaf(1)>>)
    /\ Len(rcOut.val) = 4
    /\ rcOut.val[1].cumulative_gas_used = 2
    /\ rcOut.val[3].cumulative_gas_used = 3

\* ------------------------------------------------------------------------
\* Claims about the state root (SpecState)
\* ------------------------------------------------------------------------

\* C5: state_root_hash is a function of the set of (address, account) pairs
\* only: whatever the order in which the pairs were enumerated, the digest
\* returned is the one every other enumeration of the same state gives.
C5_RootOrderIndependent ==
    stPc = "rooted" =>
        \A order \in Enumerations(DOMAIN state) :
            state_root_hash(state, order) = root

C5_Witness ==
    /\ stPc = "rooted"
    /\ Len(accounts) = 3
    /\ accounts[1][1] = Address(3)
    /\ accounts[3][1] = Address(2)
    /\ state[Address(1)] # state[Address(2)]

\* C6: for every storage-bearing account the storage-root field serialised
\* into its payload is the root computed over the account's own slots, and
\* it is resolved before the state-root pass over the accounts begins.
C6_StorageRootFromSlots ==
    stPc \in {"encoded", "rooted"} =>
        \A i \in DOMAIN accounts :
            state[accounts[i][1]].storage # None =>
                accounts[i][2].items[3] = storage_root(state[accounts[i][1]].storage[1])

\* C11: state_root_hash of an empty state returns the fixed empty-root
\* constant EMPTY_ROOT.
C11_EmptyStateRoot ==
    (stPc = "rooted" /\ DOMAIN state = {}) => root = Ok(EMPTY_ROOT)

C11_Witness ==
    /\ stPc = "rooted"
    /\ DOMAIN state = {}
    /\ accounts = <<>>
    /\ root = Ok(EMPTY_ROOT)

\* C12: the root computation never partially succeeds and never fails on a
\* structural condition: for every state, empty or with accounts that lack
\* nonce, code hash, root or storage, every account is serialised and a
\* complete digest is returned; a result that is not Ok carries no digest.
C12_RootCompleteOrAbsent ==
    /\ stPc \in {"encoded", "rooted"} =>
        /\ Len(accounts) = Cardinality(DOMAIN state)
        /\ \A a \in DOMAIN state :
            \E i \in DOMAIN accounts :
                /\ accounts[i][1] = a
                /\ accounts[i][2].t = "enc"
                /\ Len(accounts[i][2].items) = 4
    /\ stPc = "rooted" =>
        /\ root.k = "ok"
        /\ root.val.t = "h"
        /\ root.val = trie_root([i \in DOMAIN accounts |->
                          <<nibbles(keccak256(accounts[i][1])), accounts[i][2]>>])
    /\ root.k # "ok" => root.val = <<>>

C12_Witness ==
    /\ stPc = "rooted"
    /\ root.k = "ok"
    /\ Len(accounts) = 2
    /\ \E a \in DOMAIN state :
        /\ state[a].nonce = None /\ state[a].code_hash = None
        /\ state[a].root = None /\ state[a].storage = None

\* ------------------------------------------------------------------------
\* Claims about the genesis writer (SpecGenesis)
\* ------------------------------------------------------------------------

\* The hex digits of an extradata text: the text after its 0x prefix, or the
\* whole text when it has none
HexDigitsOf(text) ==
    IF Len(text) >= 2 /\ SubSeq(text, 1, 2) = <<48, 120>>
    THEN SubSeq(text, 3, Len(text)) ELSE text

\* C15: Genesis::to_header yields a header whose difficulty and gas limit
\* are the numbers of the configuration's decimal strings, whose extra data
\* is the bytes the extradata string spells in hex, with or without a 0x
\* prefix and never the characters of the string, and whose every other
\* field has its default value.
C15_GenesisHeaderFields ==
    \A p \in db.Headers :
        (gnPc \in {"alloc", "stopped", "done"}) =>
            /\ p[1] = 0
            /\ p[2].difficulty = decimal_value(genesis[1].difficulty)
            /\ p[2].gas_limit = decimal_value(genesis[1].gas_limit)
            /\ 2 * Len(p[2].extra_data) = Len(HexDigitsOf(genesis[1].extradata))
            /\ \A i \in DOMAIN p[2].extra_data :
                p[2].extra_data[i] =
                    16 * HexValue(HexDigitsOf(genesis[1].extradata)[2 * i - 1])
                        + HexValue(HexDigitsOf(genesis[1].extradata)[2 * i])
            /\ [p[2] EXCEPT !.difficulty = 0, !.gas_limit = 0, !.extra_data = <<>>]
                    = Header_default

C15_Witness ==
    /\ gnPc = "alloc"
    /\ genesis[1].extradata = <<48, 120, 48, 48, 102, 102>>
    /\ \E p \in db.Headers :
        /\ p[2].difficulty = 1
        /\ p[2].gas_limit = 15000000
        /\ p[2].extra_data = <<0, 255>>
        /\ p[2].ommers_hash = EMPTY_LIST_HASH

\* C7: in genesis::apply an account's stored record has a code-hash entry
\* exactly when its code is present and non-empty, and the entry is then the
\* hash of the raw code bytes; an account with absent or empty code is
\* stored with no code-hash entry and gets no Bytecodes entry.
C7_CodeHashIffCode ==
    gnPc \in {"alloc", "stopped", "done"} =>
        /\ \A p \in db.PlainAccountState :
            p[2].bytecode_hash =
                IF genesis[1].alloc[p[1]].code \in {None, Some(<<>>)} THEN None
                ELSE Some(keccak256(genesis[1].alloc[p[1]].code[1]))
        /\ \A q \in db.Bytecodes :
            /\ q[2] # <<>>
            /\ q[1] = keccak256(q[2])
            /\ \E a \in DOMAIN genesis[1].alloc : genesis[1].alloc[a].code = Some(q[2])

C7_Witness ==
    /\ gnPc = "done"
    /\ ~gnErr
    /\ \E p \in db.PlainAccountState :
         genesis[1].alloc[p[1]].code = Some(<<>>) /\ p[2].bytecode_hash = None
    /\ \E p \in db.PlainAccountState :
         /\ p[2].bytecode_hash = Some(keccak256(<<96, 0>>))
         /\ <<keccak256(<<96, 0>>), <<96, 0>>>> \in db.Bytecodes

\* C16: after genesis::apply succeeds, every account of the allocation map
\* is readable from the account table under its address, its balance
\* unchanged and its nonce the given one or 0 when absent, and every slot of
\* its storage is stored under the address with the same key and the value
\* read as a big-endian integer.
C16_AllocReadable ==
    gnPc = "done" =>
        \A a \in DOMAIN genesis[1].alloc :
            /\ get(db.PlainAccountState, a) # None
            /\ get(db.PlainAccountState, a)[1].balance = genesis[1].alloc[a].balance
            /\ get(db.PlainAccountState, a)[1].nonce =
                  (IF genesis[1].alloc[a].nonce = None THEN 0 ELSE genesis[1].alloc[a].nonce[1])
            /\ genesis[1].alloc[a].storage # None =>
                \A s \in genesis[1].alloc[a].storage[1] :
                    <<a, [key |-> s[1], value |-> from_big_endian(s[2])]>> \in db.PlainStorageState

\* ------------------------------------------------------------------------
\* Claims about the receipts command (SpecReceipts)
\* ------------------------------------------------------------------------

FirstError == 
    IF \E i \in DOMAIN cnRes : cnRes[i].k # "ok"
    THEN MinOf({i \in DOMAIN cnRes : cnRes[i].k # "ok"}) ELSE 0

\* C18: db::construct applies the stages strictly in the order genesis,
\* blocks, receipts, state: a stage starts only after the previous one
\* returned Ok, the first stage error is returned and no later stage is run,
\* and the database handle is returned only when all four stages succeeded.
C18_StagesInOrder ==
    cnPc # "idle" =>
        /\ cnLog = SubSeq(Stages, 1, Len(cnLog))
        /\ Len(cnRes) <= Len(cnLog)
        /\ \A i \in 1..(Len(cnLog) - 1) : i \in DOMAIN cnRes /\ cnRes[i].k = "ok"
        /\ FirstError # 0 =>
            /\ cnPc = "returned"
            /\ cnOut = cnRes[FirstError]
            /\ Len(cnLog) = FirstError
        /\ cnOut.k = "ok" =>
            /\ cnPc = "returned"
            /\ Len(cnRes) = 4
            /\ FirstError = 0
            /\ cnOut = Ok(db)
        /\ cnPc = "returned" => cnOut.k = "ok" \/ FirstError # 0

C18_Witness ==
    /\ cnPc = "returned"
    /\ cnOut.k = "ok"
    /\ cnLog = Stages
    /\ db.PlainAccountState # {}

\* ------------------------------------------------------------------------
\* Claims about the insert step of the blocks command (Spec)
\* ------------------------------------------------------------------------

\* The blocks of bs whose number is not 0, in order
RECURSIVE NonGenesis(_)
NonGenesis(bs) ==
    IF bs = <<>> THEN <<>>
    ELSE IF bs[1].header.header.number = 0 THEN NonGenesis(Tail(bs))
         ELSE <<bs[1]>> \o NonGenesis(Tail(bs))

\* C21: the blocks command inserts, in dump order, exactly the decoded
\* blocks other than the genesis block (number 0): the one element it leaves
\* out is always the genesis block, also when records were skipped as
\* malformed, and an empty dump ends the insert step without a panic.
C21_InsertsAllButGenesis ==
    /\ (pc = "panic_insert" => blocks # <<>>)
    /\ (pc \in {"done", "panic_insert"} /\ blocks # <<>>) =>
            Tail(blocks) = NonGenesis(blocks)

\* ------------------------------------------------------------------------
\* Claims about the block_headers command (SpecHeaders)
\* ------------------------------------------------------------------------

\* C22: after the insert step of the block_headers command, for any sequence
\* of decoded headers, the three tables are consistent: for every number n
\* in Headers, CanonicalHeaders[n] is the hash of Headers[n], and
\* HeaderNumbers maps a hash h to n only if CanonicalHeaders[n] = h.
C22_HeaderTablesConsistent ==
    hsPc = "inserted" =>
        /\ \A p \in db.Headers : get(db.CanonicalHeaders, p[1]) = Some(hash_slow(p[2]))
        /\ \A q \in db.HeaderNumbers : get(db.CanonicalHeaders, q[2]) = Some(q[1])

\* ------------------------------------------------------------------------
\* Claims about the account payload (SpecState)
\* ------------------------------------------------------------------------

\* C23: in the serialised payload of every account the four fields are, in
\* order, the nonce (0 when absent), the balance, the account's storage root
\* (the empty root when absent) and the account's code hash itself when
\* present, the hash of empty input when absent.
C23_PayloadFields ==
    stPc \in {"encoded", "rooted"} =>
        \A i \in DOMAIN accounts :
            LET ea == state[accounts[i][1]]
            IN  accounts[i][2].items =
                    << u64_item(IF ea.nonce = None THEN 0 ELSE ea.nonce[1]),
                       U256_item(ea.balance),
                       IF ea.root = None THEN EMPTY_ROOT ELSE ea.root[1],
                       IF ea.code_hash = None THEN KECCAK_EMPTY ELSE ea.code_hash[1] >>

\* ------------------------------------------------------------------------
\* Claims about the Bytecodes table (SpecStateInsert, SpecGenesis)
\* ------------------------------------------------------------------------

\* C24: every entry written to the Bytecodes table, by genesis::apply or by
\* the state command, has as its key the hash of the bytes stored as its
\* value, for every account (state accounts whose code is absent or is not
\* valid hex while a code hash is present included).
C24_BytecodeKeyIsHashOfValue ==
    \A p \in db.Bytecodes : p[1] = keccak256(p[2])

\* ------------------------------------------------------------------------
\* Claims about GenesisConfig::map (SpecConfig)
\* ------------------------------------------------------------------------

\* The integer fields of the configuration c by their keys
IntegerFields(c) ==
    [ chainId |-> c.chain_id, homesteadBlock |-> c.homestead_block,
      eip150Block |-> c.eip150_block, eip155Block |-> c.eip155_block,
      eip158Block |-> c.eip158_block, byzantiumBlock |-> c.byzantium_block,
      constantinopleBlock |-> c.constantinople_block,
      petersburgBlock |-> c.petersburg_block, istanbulBlock |-> c.istanbul_block,
      muirGlacierBlock |-> c.muir_glacier_block, berlinBlock |-> c.berlin_block,
      londonBlock |-> c.london_block, arrowGlacierBlock |-> c.arrow_glacier_block,
      grayGlacierBlock |-> c.gray_glacier_block,
      mergeNetsplitBlock |-> c.merge_netsplit_block, bedrockBlock |-> c.bedrock_block,
      terminalTotalDifficulty |-> c.terminal_total_difficulty,
      eip1559Elasticity |-> c.optimism.eip1559_elasticity,
      eip1559Denominator |-> c.optimism.eip1559_denominator ]

\* C25: GenesisConfig::map returns one entry per configuration field, and
\* the value under each key is the serialisation of the same-named field:
\* little-endian 8 bytes for an integer field, the UTF-8 bytes for a string
\* field, the single byte 1 or 0 for terminalTotalDifficultyPassed.
C25_MapHoldsEveryField ==
    cfPc = "mapped" =>
        /\ DOMAIN cfMap = DOMAIN IntegerFields(config)
                \cup {"ChainName", "eip150Hash", "terminalTotalDifficultyPassed"}
        /\ \A k \in DOMAIN IntegerFields(config) :
                /\ Len(cfMap[k]) = U64Len
                /\ from_little_endian_value(cfMap[k]) = IntegerFields(config)[k]
        /\ cfMap["ChainName"] = as_bytes(config.chain_name)
        /\ cfMap["eip150Hash"] = as_bytes(config.eip150_hash)
        /\ cfMap["terminalTotalDifficultyPassed"] =
                IF config.terminal_total_difficulty_passed THEN <<1>> ELSE <<0>>

\* ------------------------------------------------------------------------
\* Claims about Receipt::decode_receipt_vec (SpecReceipts)
\* ------------------------------------------------------------------------

\* The buffer of the file cut short by n bytes
CutShort(file, n) == SubSeq(file, 2, Len(file) - n)

\* C26: Receipt::decode_receipt_vec terminates on every input and never
\* returns an error: an empty item is skipped, an item that decodes as a
\* receipt is appended, any other item is recursed into, so an undecodable
\* scalar item contributes no receipt and no error is reported for it.
C26_DecodeVecNeverFails ==
    rcPc # "start" =>
        /\ rcOut.k # "err"
        /\ rcPc # "failed"
        /\ \A n \in 0..2 : decode_receipt_vec(Rlp_new(CutShort(rcFile, n))).k = "ok"
        /\ \A i \in DOMAIN rcSrc.xs :
            LET item == ShapeItem(rcSrc.xs[i])
                one == decode_receipt_vec(List(<<item>>))
            IN  /\ one.k = "ok"
                /\ is_empty(item) => one.val = <<>>
                /\ Receipt_decode(item).k = "ok" => one.val = <<Receipt_decode(item).val>>
                /\ (~is_empty(item) /\ Receipt_decode(item).k # "ok") =>
                        one = decode_receipt_vec(item)
                /\ (is_data(item) /\ Receipt_decode(item).k # "ok") => one.val = <<>>

C26_Witness ==
    /\ rcPc = "decoded"
    /\ rcSrc = Wrap(<<Stray, Leaf(2)>>)
    /\ Len(rcOut.val) = 1
    /\ rcOut.val[1].cumulative_gas_used = 2

\* ------------------------------------------------------------------------
\* Claims about the result of genesis::apply (SpecGenesis)
\* ------------------------------------------------------------------------

\* C27: if genesis::apply returns Ok(()), the genesis block and every
\* account of the allocation map (account record, bytecode when present,
\* all storage entries) have been written; a failed write of the block or
\* of an account is never followed by an Ok result.
C27_OkMeansAllWritten ==
    gnPc = "done" =>
        /\ ~gnErr
        /\ get(db.Headers, 0) = Some(to_header(genesis[1]).val)
        /\ \A a \in DOMAIN genesis[1].alloc :
            /\ get(db.PlainAccountState, a) = Some(RethAccount(genesis[1].alloc[a]))
            /\ has_code(genesis[1].alloc[a]) =>
                  <<keccak256(genesis[1].alloc[a].code[1]), genesis[1].alloc[a].code[1]>>
                        \in db.Bytecodes
            /\ storage_entries(a, genesis[1].alloc[a]) \subseteq db.PlainStorageState

\* ------------------------------------------------------------------------
\* Claims about the list header of the account payload (SpecState)
\* ------------------------------------------------------------------------

\* The payload length that the list header b declares
declared_length(b) ==
    IF b[1] < 248 THEN b[1] - 192
    ELSE from_big_endian(SubSeq(b, 2, Len(b)))

\* C28: for every exported account the payload length declared in the list
\* header written by encode_exported_account equals the total encoded
\* length of the four fields written after the header, whatever the nonce,
\* balance, root and code hash of the account are, present or absent.
C28_HeaderLengthIsFieldsLength ==
    stPc \in {"encoded", "rooted"} =>
        \A i \in DOMAIN accounts :
            /\ Len(accounts[i][2].items) = 4
            /\ declared_length(accounts[i][2].b) =
                  SumLen([j \in 1..4 |-> length(accounts[i][2].items[j])])
            /\ accounts[i][2].b =
                  EncodeHeader(length_payload(accounts[i][2]), 192)

C28_Witness ==
    /\ stPc = "encoded"
    /\ Len(accounts) = 3
    /\ \E i, j, k \in DOMAIN accounts :
        /\ state[accounts[i][1]].root # None /\ state[accounts[i][1]].nonce # None
        /\ state[accounts[j][1]].root = None /\ state[accounts[j][1]].code_hash # None
        /\ state[accounts[k][1]].code_hash = None /\ state[accounts[k][1]].nonce = None

====
